---- MODULE Spec2Model ----
(***************************************************************************)
(* A model of the rule kernel of The Battle of LITS (crate lits): points,  *)
(* transforms, tetrominoes, the board with its attach-point index, and the *)
(* tetromino <-> integer movemap.                                          *)
(***************************************************************************)
EXTENDS Integers, Sequences, FiniteSets, TLC

VARIABLES board, call, MOVEMAP_FWD, MOVEMAP_REV, game, pool, threads, caller

vars == <<board, call, MOVEMAP_FWD, MOVEMAP_REV, game, pool, threads, caller>>

Range(s) == {s[i] : i \in DOMAIN s}

Min(S) == CHOOSE m \in S : \A n \in S : m <= n

(***************************************************************************)
(* Bounds of the exploration.                                              *)
(***************************************************************************)

\* place and undo are called on tetrominoes at the first MaxAnchors anchors
\* of AnchorOrder.
MaxAnchors == 7


\* from is called on the IDs 0 .. MaxId (and on the two ends of the range).
MaxId == 60

(***************************************************************************)
(* colour.rs, player.rs                                                    *)
(***************************************************************************)

Colours == {"L", "I", "T", "S"}

ColourOrder == <<"L", "I", "T", "S">>

as_index(c) == CASE c = "L" -> 0 [] c = "I" -> 1 [] c = "T" -> 2 [] c = "S" -> 3

Players == {"X", "O"}

\* A next that leaves the move with the same player.
next_same(p) == p

next(p) == CASE p = "X" -> "O" [] p = "O" -> "X"

(***************************************************************************)
(* point.rs                                                                *)
(***************************************************************************)

PointAdd(p, q) == <<p[1] + q[1], p[2] + q[2]>>

PointSub(p, q) == <<p[1] - q[1], p[2] - q[2]>>

in_bounds(p) == 0 <= p[1] /\ p[1] <= 9 /\ 0 <= p[2] /\ p[2] <= 9

Points == (0 .. 9) \X (0 .. 9)

neighbours(p) ==
    { <<p[1] - 1, p[2]>>, <<p[1] + 1, p[2]>>, <<p[1], p[2] - 1>>, <<p[1], p[2] + 1>> }

neighbours_on_board(p) == { q \in neighbours(p) : in_bounds(q) }

\* Potential anchors at most two steps from the point.
get_potential_anchors_near(p) ==
    { a \in { PointSub(p, o) : o \in { o \in (0 .. 2) \X (0 .. 2) : o[2] <= 2 - o[1] } } :
        in_bounds(a) }

get_potential_anchors(p) ==
    LET offsets == { o \in (0 .. 3) \X (0 .. 3) : o[2] <= 3 - o[1] }
    IN  { a \in { PointAdd(<<0 - o[1], 0 - o[2]>>, p) : o \in offsets } : in_bounds(a) }

(***************************************************************************)
(* transform.rs                                                            *)
(***************************************************************************)

as_array ==
    << "Identity", "IdenRot90", "IdenRot180", "IdenRot270",
       "Reflect", "ReflRot90", "ReflRot180", "ReflRot270" >>

Transforms == Range(as_array)

apply_to_point(t, p) ==
    LET x == p[1]
        y == p[2]
    IN  CASE t = "Identity"   -> <<x, y>>
          [] t = "IdenRot90"  -> <<y, 0 - x>>
          [] t = "IdenRot180" -> <<0 - x, 0 - y>>
          [] t = "IdenRot270" -> <<0 - y, x>>
          [] t = "Reflect"    -> <<0 - x, y>>
          [] t = "ReflRot90"  -> <<y, x>>
          [] t = "ReflRot180" -> <<x, 0 - y>>
          [] t = "ReflRot270" -> <<0 - y, 0 - x>>

reflect(t) ==
    CASE t = "Identity"   -> "Reflect"
      [] t = "IdenRot90"  -> "ReflRot90"
      [] t = "IdenRot180" -> "ReflRot180"
      [] t = "IdenRot270" -> "ReflRot270"
      [] t = "Reflect"    -> "Identity"
      [] t = "ReflRot90"  -> "IdenRot90"
      [] t = "ReflRot180" -> "IdenRot180"
      [] t = "ReflRot270" -> "IdenRot270"

rotate(t) ==
    CASE t = "Identity"   -> "IdenRot90"
      [] t = "IdenRot90"  -> "IdenRot180"
      [] t = "IdenRot180" -> "IdenRot270"
      [] t = "IdenRot270" -> "Identity"
      [] t = "Reflect"    -> "ReflRot90"
      [] t = "ReflRot90"  -> "ReflRot180"
      [] t = "ReflRot180" -> "ReflRot270"
      [] t = "ReflRot270" -> "Reflect"

\* impl Add for & Transform: self + rhs
TransformAdd(self, rhs) ==
    CASE rhs = "Identity"   -> self
      [] rhs = "IdenRot90"  -> rotate(self)
      [] rhs = "IdenRot180" -> rotate(rotate(self))
      [] rhs = "IdenRot270" -> rotate(rotate(rotate(self)))
      [] rhs = "Reflect"    -> reflect(self)
      [] rhs = "ReflRot90"  -> rotate(reflect(self))
      [] rhs = "ReflRot180" -> rotate(rotate(reflect(self)))
      [] rhs = "ReflRot270" -> rotate(rotate(rotate(reflect(self))))

\* A canonicalize that folds no transform.
canonicalize_identity(t, colour) == t

\* A canonicalize that folds the transforms of S as it folds those of T.
canonicalize_s_as_t(t, colour) ==
    CASE colour = "I" ->
            IF t \in {"IdenRot180", "Reflect", "ReflRot180"} THEN "Identity"
            ELSE IF t \in {"IdenRot270", "ReflRot90", "ReflRot270"} THEN "IdenRot90"
            ELSE t
      [] colour \in {"T", "S"} ->
            CASE t = "Reflect"    -> "Identity"
              [] t = "ReflRot90"  -> "IdenRot90"
              [] t = "ReflRot180" -> "IdenRot180"
              [] t = "ReflRot270" -> "IdenRot270"
              [] OTHER            -> t
      [] OTHER -> t

canonicalize(t, colour) ==
    CASE colour = "I" ->
            IF t \in {"IdenRot180", "Reflect", "ReflRot180"} THEN "Identity"
            ELSE IF t \in {"IdenRot270", "ReflRot90", "ReflRot270"} THEN "IdenRot90"
            ELSE t
      [] colour = "T" ->
            CASE t = "Reflect"    -> "Identity"
              [] t = "ReflRot90"  -> "IdenRot90"
              [] t = "ReflRot180" -> "IdenRot180"
              [] t = "ReflRot270" -> "IdenRot270"
              [] OTHER            -> t
      [] colour = "S" ->
            CASE t = "IdenRot180" -> "Identity"
              [] t = "IdenRot270" -> "IdenRot90"
              [] t = "ReflRot180" -> "Reflect"
              [] t = "ReflRot270" -> "ReflRot90"
              [] OTHER            -> t
      [] OTHER -> t

\* The BTreeSet of canonical transforms, read back in the enum's order.
enumerate(colour) ==
    LET set == { canonicalize(t, colour) : t \in Transforms }
    IN  SelectSeq(as_array, LAMBDA t : t \in set)

\* Transform::normalize: the anchor it returns ...
normalize_anchor(points) ==
    << Min({ points[i][1] : i \in DOMAIN points }),
       Min({ points[i][2] : i \in DOMAIN points }) >>

\* ... and the points it leaves behind.
normalize(points) ==
    LET anchor == normalize_anchor(points)
    IN  [ i \in DOMAIN points |-> PointSub(points[i], anchor) ]

(***************************************************************************)
(* tetromino.rs                                                            *)
(***************************************************************************)

construct_raw(colour, anchor, points, transform) ==
    [ colour |-> colour, anchor |-> anchor, points |-> points, transform |-> transform ]

get_reference_tetromino(colour, anchor) ==
    LET point_set ==
            CASE colour = "L" -> << <<0, 0>>, <<0, 1>>, <<0, 2>>, <<1, 2>> >>
              [] colour = "I" -> << <<0, 0>>, <<0, 1>>, <<0, 2>>, <<0, 3>> >>
              [] colour = "T" -> << <<0, 0>>, <<1, 1>>, <<1, 0>>, <<2, 0>> >>
              [] colour = "S" -> << <<0, 1>>, <<1, 1>>, <<1, 0>>, <<2, 0>> >>
    IN  construct_raw(colour, anchor, point_set, "Identity")

\* Transform::apply_to_tetromino (self = t)
apply_to_tetromino(t, target) ==
    LET c      == canonicalize(t, target.colour)
        mapped == [ i \in DOMAIN target.points |-> apply_to_point(c, target.points[i]) ]
    IN  construct_raw(target.colour, target.anchor, normalize(mapped),
                      canonicalize(TransformAdd(target.transform, t), target.colour))

enumerate_transforms(tet) ==
    LET ts == enumerate(tet.colour)
    IN  [ i \in DOMAIN ts |-> apply_to_tetromino(ts[i], tet) ]

Tetromino_new(colour, anchor, transform) ==
    apply_to_tetromino(canonicalize(transform, colour), get_reference_tetromino(colour, anchor))

points_real(tet) == [ i \in DOMAIN tet.points |-> PointAdd(tet.anchor, tet.points[i]) ]

get_attaches(tet) ==
    LET points == Range(points_real(tet))
    IN  UNION { { n \in neighbours_on_board(p) : n \notin points } : p \in points }

(***************************************************************************)
(* board.rs                                                                *)
(***************************************************************************)

colour_at(b, p) == b.piece_tiles[p[1]][p[2]]

has_coloured_neighbour(tiles, p) ==
    \E q \in neighbours_on_board(p) : tiles[q[1]][q[2]] # "None"

\* The colourset of a point: {L,I,T,S} with the colours of its neighbours removed.
colourset_at(tiles, p) ==
    Colours \ { tiles[q[1]][q[2]] : q \in neighbours_on_board(p) }

\* Board::calculate_attach_points_from_scratch, as the map it leaves in attach_points.
calculate_attach_points_from_scratch(tiles) ==
    LET is_empty == \A p \in Points : tiles[p[1]][p[2]] = "None"
    IN  IF ~ is_empty
        THEN LET keys == { p \in Points :
                             /\ tiles[p[1]][p[2]] = "None"
                             /\ has_coloured_neighbour(tiles, p)
                             /\ colourset_at(tiles, p) # {} }
             IN  [ p \in keys |-> colourset_at(tiles, p) ]
        ELSE [ p \in Points |-> Colours ]

NoScore == [ i \in 0 .. 9 |-> [ j \in 0 .. 9 |-> "None" ] ]

NoTiles == [ i \in 0 .. 9 |-> [ j \in 0 .. 9 |-> "None" ] ]

Board_blank ==
    [ score_tiles      |-> NoScore,
      piece_tiles      |-> NoTiles,
      pieces_remaining |-> [ i \in 0 .. 3 |-> 5 ],
      attach_points    |-> [ p \in Points |-> Colours ],
      to_move          |-> "X" ]

\* Board::new on a pool whose counts are all in 0 ..= 5 (the Ok branch).
Board_new(score_tiles, piece_tiles, remaining, to_move) ==
    [ score_tiles      |-> score_tiles,
      piece_tiles      |-> piece_tiles,
      pieces_remaining |-> remaining,
      attach_points    |-> calculate_attach_points_from_scratch(piece_tiles),
      to_move          |-> to_move ]

point_attach_exists(b, point) == point \in DOMAIN b.attach_points

\* A same-colour check that looks at no neighbour.
point_attach_same_colour_never(b, point, colour) == FALSE

point_attach_same_colour(b, point, colour) ==
    \E n \in neighbours_on_board(point) : b.piece_tiles[n[1]][n[2]] = colour

\* An O check over the piece's 4x4 bounding window, without the padding.
tetromino_attach_forms_o_unpadded(b, pts) ==
    LET anchor == normalize_anchor(pts)
        points == Range(normalize(pts))
        grid   == [ i \in 0 .. 3 |-> [ j \in 0 .. 3 |->
                      LET here == PointAdd(<<i, j>>, anchor)
                      IN  \/ (in_bounds(here) /\ b.piece_tiles[here[1]][here[2]] # "None")
                          \/ <<i, j>> \in points ] ]
    IN  \E i \in 0 .. 2, j \in 0 .. 2 :
            grid[i][j] /\ grid[i + 1][j] /\ grid[i][j + 1] /\ grid[i + 1][j + 1]

tetromino_attach_forms_o(b, pts) ==
    LET anchor == PointSub(normalize_anchor(pts), <<1, 1>>)
        points == { PointAdd(p, <<1, 1>>) : p \in Range(normalize(pts)) }
        grid   == [ i \in 0 .. 5 |-> [ j \in 0 .. 5 |->
                      LET here == PointAdd(<<i, j>>, anchor)
                      IN  \/ (in_bounds(here) /\ b.piece_tiles[here[1]][here[2]] # "None")
                          \/ <<i, j>> \in points ] ]
    IN  \E i \in 0 .. 4, j \in 0 .. 4 :
            grid[i][j] /\ grid[i + 1][j] /\ grid[i][j + 1] /\ grid[i + 1][j + 1]

\* Board::tetromino_exists: all() reads the tiles in the order of the points and
\* stops at the first mismatch; reading a tile outside the 10x10 vectors panics.
RECURSIVE exists_from(_, _, _, _)
exists_from(b, colour, points, i) ==
    IF i > Len(points) THEN "true"
    ELSE IF ~ in_bounds(points[i]) THEN "panic"
    ELSE IF b.piece_tiles[points[i][1]][points[i][2]] # colour THEN "false"
    ELSE exists_from(b, colour, points, i + 1)

tetromino_exists(b, tet) == exists_from(b, tet.colour, points_real(tet), 1)

\* A validate_tetromino that looks for an O before it looks for a neighbour of
\* the piece's own colour.
validate_tetromino_o_first(b, tet) ==
    LET points == Range(points_real(tet))
        colour == tet.colour
    IN  IF ~ (b.pieces_remaining[as_index(colour)] > 0) THEN "no-such-piece"
        ELSE IF ~ (\A p \in points : in_bounds(p)) THEN "out-of-bounds"
        ELSE IF \E p \in points : b.piece_tiles[p[1]][p[2]] # "None" THEN "overlap"
        ELSE IF ~ (\E p \in points : point_attach_exists(b, p)) THEN "no-attach-point"
        ELSE IF tetromino_attach_forms_o(b, points_real(tet)) THEN "forms-O"
        ELSE IF \E p \in points : point_attach_same_colour(b, p, colour)
             THEN "same-colour-adjacent"
        ELSE "Ok"

\* Board::validate_tetromino: "Ok", or the first check that fails.
validate_tetromino(b, tet) ==
    LET points == Range(points_real(tet))
        colour == tet.colour
    IN  IF ~ (b.pieces_remaining[as_index(colour)] > 0) THEN "no-such-piece"
        ELSE IF ~ (\A p \in points : in_bounds(p)) THEN "out-of-bounds"
        ELSE IF \E p \in points : b.piece_tiles[p[1]][p[2]] # "None" THEN "overlap"
        ELSE IF ~ (\E p \in points : point_attach_exists(b, p)) THEN "no-attach-point"
        ELSE IF \E p \in points : point_attach_same_colour(b, p, colour)
             THEN "same-colour-adjacent"
        ELSE IF tetromino_attach_forms_o(b, points_real(tet)) THEN "forms-O"
        ELSE "Ok"

Sum(f) == f[0] + f[1] + f[2] + f[3]

\* An update that gives a new attach point every colour, the piece's own included.
update_attach_points_add_all_colours(b, tet) ==
    IF Sum(b.pieces_remaining) = 19
    THEN calculate_attach_points_from_scratch(b.piece_tiles)
    ELSE LET points       == Range(points_real(tet))
             kept         == DOMAIN b.attach_points \ points
             new_attaches == { p \in get_attaches(tet) : b.piece_tiles[p[1]][p[2]] = "None" }
         IN  [ p \in kept \cup new_attaches |->
                 IF p \in kept THEN b.attach_points[p] ELSE Colours ]

\* Board::update_attach_points_add on the board b whose tiles, pool and side to
\* move have already been updated; the attach_points it leaves.
update_attach_points_add(b, tet) ==
    IF Sum(b.pieces_remaining) = 19
    THEN calculate_attach_points_from_scratch(b.piece_tiles)
    ELSE LET points       == Range(points_real(tet))
             kept         == DOMAIN b.attach_points \ points
             new_attaches == { p \in get_attaches(tet) : b.piece_tiles[p[1]][p[2]] = "None" }
             emptied      == { p \in new_attaches \cap kept :
                                 b.attach_points[p] \ {tet.colour} = {} }
         IN  [ p \in (kept \cup new_attaches) \ emptied |->
                 IF p \in new_attaches
                 THEN IF p \in kept THEN b.attach_points[p] \ {tet.colour}
                                    ELSE Colours \ {tet.colour}
                 ELSE b.attach_points[p] ]

\* Board::update_attach_points_sub, likewise after the tiles have been cleared.
update_attach_points_sub(b, tet) ==
    IF Sum(b.pieces_remaining) = 20
    THEN calculate_attach_points_from_scratch(b.piece_tiles)
    ELSE LET created_attaches == { p \in get_attaches(tet) : b.piece_tiles[p[1]][p[2]] = "None" }
             points           == Range(points_real(tet))
             visited          == created_attaches \cup points
             removed          == { p \in created_attaches : ~ has_coloured_neighbour(b.piece_tiles, p) }
             inserted         == { p \in visited : has_coloured_neighbour(b.piece_tiles, p) }
         IN  [ p \in ((DOMAIN b.attach_points) \ removed) \cup inserted |->
                 IF p \in inserted THEN colourset_at(b.piece_tiles, p)
                                   ELSE b.attach_points[p] ]

set_tiles(tiles, points, colour) ==
    [ i \in 0 .. 9 |-> [ j \in 0 .. 9 |->
        IF <<i, j>> \in points THEN colour ELSE tiles[i][j] ] ]

\* A place_tetromino that takes the piece from the pool before it validates.
place_tetromino_takes_first(b, tet) ==
    LET taken == [ b EXCEPT !.pieces_remaining[as_index(tet.colour)] = @ - 1 ]
        valid == validate_tetromino(b, tet)
    IN  IF valid # "Ok"
        THEN [ result |-> valid, board |-> taken ]
        ELSE LET played ==
                    [ taken EXCEPT
                        !.piece_tiles = set_tiles(@, Range(points_real(tet)), tet.colour),
                        !.to_move = next(@) ]
             IN  [ result |-> "Ok",
                   board  |-> [ played EXCEPT !.attach_points = update_attach_points_add(played, tet) ] ]

\* Board::place_tetromino: the result and the board it leaves.
place_tetromino(b, tet) ==
    LET valid == validate_tetromino(b, tet)
    IN  IF valid # "Ok"
        THEN [ result |-> valid, board |-> b ]
        ELSE LET played ==
                    [ b EXCEPT
                        !.pieces_remaining[as_index(tet.colour)] = @ - 1,
                        !.piece_tiles = set_tiles(@, Range(points_real(tet)), tet.colour),
                        !.to_move = next(@) ]
             IN  [ result |-> "Ok",
                   board  |-> [ played EXCEPT !.attach_points = update_attach_points_add(played, tet) ] ]

\* An undo that does not look at the pool before it increments it.
undo_tetromino_unchecked(b, tet) ==
    IF tetromino_exists(b, tet) # "true"
    THEN [ result |-> "piece-not-on-board", board |-> b ]
    ELSE LET removed ==
                [ b EXCEPT
                    !.pieces_remaining[as_index(tet.colour)] = @ + 1,
                    !.piece_tiles = set_tiles(@, Range(points_real(tet)), "None"),
                    !.to_move = next(@) ]
         IN  [ result |-> "Ok",
               board  |-> [ removed EXCEPT !.attach_points = update_attach_points_sub(removed, tet) ] ]

\* Board::undo_tetromino: the result and the board it leaves.
undo_tetromino(b, tet) ==
    IF ~ (b.pieces_remaining[as_index(tet.colour)] < 5)
    THEN [ result |-> "no-remaining-undo", board |-> b ]
    ELSE IF tetromino_exists(b, tet) = "panic"
    THEN [ result |-> "panic", board |-> b ]
    ELSE IF tetromino_exists(b, tet) = "false"
    THEN [ result |-> "piece-not-on-board", board |-> b ]
    ELSE LET removed ==
                [ b EXCEPT
                    !.pieces_remaining[as_index(tet.colour)] = @ + 1,
                    !.piece_tiles = set_tiles(@, Range(points_real(tet)), "None"),
                    !.to_move = next(@) ]
         IN  [ result |-> "Ok",
               board  |-> [ removed EXCEPT !.attach_points = update_attach_points_sub(removed, tet) ] ]

enumerate_moves(b) ==
    LET available_colours == { c \in Colours : b.pieces_remaining[as_index(c)] > 0 }
    IN  UNION { UNION { UNION {
            { tet \in Range(enumerate_transforms(get_reference_tetromino(colour, anchor))) :
                validate_tetromino(b, tet) = "Ok" }
            : colour \in b.attach_points[attach] \cap available_colours }
            : anchor \in get_potential_anchors(attach) }
            : attach \in DOMAIN b.attach_points }

\* Player::value
value(p) == CASE p = "X" -> 1 [] p = "O" -> -1 [] OTHER -> 0

RECURSIVE SumValues(_, _)
SumValues(b, ps) ==
    IF ps = {} THEN 0
    ELSE LET p == CHOOSE q \in ps : TRUE
         IN  value(b.score_tiles[p[1]][p[2]]) + SumValues(b, ps \ {p})

\* Board::score: the values of the scoring tiles no piece covers (sums of
\* 1.0 and -1.0, exact in f64).
score(b) == SumValues(b, { p \in Points : b.piece_tiles[p[1]][p[2]] = "None"
                                            /\ b.score_tiles[p[1]][p[2]] # "None" })

\* Board::has_moves
has_moves(b) == enumerate_moves(b) # {}

\* A result that awards a level score to the player to move.
result_to_mover(b) ==
    IF has_moves(b) THEN [ outcome |-> "InProgress", score |-> 0 ]
    ELSE LET sc == score(b)
         IN  IF sc > 0 THEN [ outcome |-> "X", score |-> sc ]
             ELSE IF sc < 0 THEN [ outcome |-> "O", score |-> sc ]
             ELSE IF b.to_move = "X" THEN [ outcome |-> "X", score |-> 0 ]
                                     ELSE [ outcome |-> "O", score |-> 0 ]

\* Board::result: the Outcome and the score it carries (InProgress carries none).
result(b) ==
    IF has_moves(b) THEN [ outcome |-> "InProgress", score |-> 0 ]
    ELSE LET sc == score(b)
         IN  IF sc > 0 THEN [ outcome |-> "X", score |-> sc ]
             ELSE IF sc < 0 THEN [ outcome |-> "O", score |-> sc ]
             ELSE IF next(b.to_move) = "X" THEN [ outcome |-> "X", score |-> 0 ]
                                           ELSE [ outcome |-> "O", score |-> 0 ]

(***************************************************************************)
(* Notation (utils/notate.rs and the impls of Notate).  A string is the    *)
(* sequence of its bytes; a byte of a one-byte character is written as the *)
(* character, and the two bytes of a two-byte character as ByteLead and    *)
(* ByteCont.                                                               *)
(***************************************************************************)

ByteLead == "C3"

ByteCont == "A9"

\* &s[idx ..= idx] with idx counted from 0: the byte as a string, or a panic
\* when idx or idx + 1 is not a character boundary.
slice_one(s, idx) ==
    IF idx + 1 > Len(s) \/ s[idx + 1] \in { ByteLead, ByteCont }
    THEN "panic"
    ELSE s[idx + 1]

DigitChars == << "0", "1", "2", "3", "4", "5", "6", "7", "8", "9" >>

is_digit(c) == c \in Range(DigitChars)

digit_of(c) == (CHOOSE n \in DOMAIN DigitChars : DigitChars[n] = c) - 1

\* usize::to_string and the digits of format!("{}", n) for n >= 0.
RECURSIVE to_string(_)
to_string(n) ==
    IF n < 10 THEN << DigitChars[n + 1] >>
    ELSE Append(to_string(n \div 10), DigitChars[(n % 10) + 1])

\* Player::notate
Player_notate(p) == CASE p = "X" -> "X" [] p = "O" -> "O" [] OTHER -> "_"

\* Player::parse: the player, or "error".
Player_parse(c) ==
    CASE c \in { "X", "x" }           -> "X"
      [] c \in { "O", "o" }           -> "O"
      [] c \in { "_", "-", ".", "," } -> "None"
      [] OTHER                        -> "error"

\* Colour::notate
Colour_notate(c) == IF c = "None" THEN "-" ELSE c

\* Colour::parse: the colour, or "error".
Colour_parse(c) ==
    CASE c \in { "L", "l", "R", "r" } -> "L"
      [] c \in { "I", "i", "Y", "y" } -> "I"
      [] c \in { "T", "t", "G", "g" } -> "T"
      [] c \in { "S", "s", "B", "b" } -> "S"
      [] c \in { "_", "-", ".", "," } -> "None"
      [] OTHER                        -> "error"

\* Colour::as_index_null
as_index_null(c) ==
    CASE c = "L" -> 1 [] c = "I" -> 2 [] c = "T" -> 3 [] c = "S" -> 4 [] OTHER -> 0

\* Player::as_index_null, which notate_tile calls: the index that makes
\* parse_tile read back what notate_tile wrote (None 0, X 1, O 2).
Player_as_index_null(p) == CASE p = "X" -> 1 [] p = "O" -> 2 [] OTHER -> 0

TileChars ==
    << "0", "1", "2", "3", "4", "5", "6", "7", "8", "9", "a", "b", "c", "d", "e", "f" >>

\* Board::notate_tile
notate_tile(b, i, j) ==
    TileChars[5 * Player_as_index_null(b.score_tiles[i][j])
                + as_index_null(b.piece_tiles[i][j]) + 1]

\* Board::parse_tile: the table of the fifteen codes; anything else is an error.
parse_tile(c) ==
    LET codes == { n \in 1 .. 15 : TileChars[n] = c }
    IN  IF codes = {} THEN [ result |-> "parse-tile", player |-> "None", colour |-> "None" ]
        ELSE LET n == (CHOOSE k \in codes : TRUE) - 1
             IN  [ result |-> "Ok",
                   player |-> CASE n \div 5 = 0 -> "None" [] n \div 5 = 1 -> "X" [] OTHER -> "O",
                   colour |-> CASE n % 5 = 0 -> "None" [] n % 5 = 1 -> "L" [] n % 5 = 2 -> "I"
                                [] n % 5 = 3 -> "T" [] OTHER -> "S" ]

\* Board::notate: the hundred tiles in (i, j) order, a comma, the pool in
\* LITS order, a comma, the player to move.
Board_notate(b) ==
    [ k \in 1 .. 100 |-> notate_tile(b, (k - 1) \div 10, (k - 1) % 10) ]
        \o << "," >>
        \o to_string(b.pieces_remaining[0]) \o to_string(b.pieces_remaining[1])
        \o to_string(b.pieces_remaining[2]) \o to_string(b.pieces_remaining[3])
        \o << "," >>
        \o << Player_notate(b.to_move) >>

\* The first step of a loop of parse that does not pass, or "Ok".
first_failure(results) ==
    IF \A k \in DOMAIN results : results[k] = "Ok" THEN "Ok"
    ELSE results[Min({ k \in DOMAIN results : results[k] # "Ok" })]

\* Board::parse: the result and the board of Board::new.
Board_parse(s) ==
    LET tiles == [ k \in 1 .. 100 |->
                     IF slice_one(s, k - 1) = "panic" THEN "panic"
                     ELSE parse_tile(slice_one(s, k - 1)).result ]
        pools == [ k \in 1 .. 4 |->
                     LET c == slice_one(s, 100 + k)
                     IN  IF c = "panic" THEN "panic"
                         ELSE IF ~ is_digit(c) THEN "parse-pool"
                         ELSE IF digit_of(c) > 5 THEN "parse-pool"
                         ELSE "Ok" ]
        fail  == [ result |-> "none", board |-> "none" ]
    IN  IF Len(s) # 107 THEN [ fail EXCEPT !.result = "parse-length" ]
        ELSE IF first_failure(tiles) # "Ok" THEN [ fail EXCEPT !.result = first_failure(tiles) ]
        ELSE IF slice_one(s, 100) # "," 
             THEN [ fail EXCEPT !.result = IF slice_one(s, 100) = "panic" THEN "panic" ELSE "parse-comma" ]
        ELSE IF first_failure(pools) # "Ok" THEN [ fail EXCEPT !.result = first_failure(pools) ]
        ELSE IF slice_one(s, 105) # ","
             THEN [ fail EXCEPT !.result = IF slice_one(s, 105) = "panic" THEN "panic" ELSE "parse-comma" ]
        ELSE IF slice_one(s, 106) = "panic" THEN [ fail EXCEPT !.result = "panic" ]
        ELSE IF Player_parse(slice_one(s, 106)) = "error" THEN [ fail EXCEPT !.result = "parse-player" ]
        ELSE IF Player_parse(slice_one(s, 106)) = "None" THEN [ fail EXCEPT !.result = "parse-null-player" ]
        ELSE [ result |-> "Ok",
               board  |-> Board_new(
                   [ i \in 0 .. 9 |-> [ j \in 0 .. 9 |-> parse_tile(s[10 * i + j + 1]).player ] ],
                   [ i \in 0 .. 9 |-> [ j \in 0 .. 9 |-> parse_tile(s[10 * i + j + 1]).colour ] ],
                   [ k \in 0 .. 3 |-> digit_of(s[102 + k]) ],
                   Player_parse(s[107])) ]

\* format!("{:02}", n) of an i32.
format_02(n) ==
    IF n < 0 THEN << "-" >> \o to_string(- n)
    ELSE IF n < 10 THEN << "0" >> \o to_string(n)
    ELSE to_string(n)

\* Point::notate
Point_notate(p) == format_02(p[1] * 10 + p[2])

\* Point::parse: two bytes that str::parse::<i32> reads (digits, after a sign
\* or not) as a number in 0 ..= 99.
Point_parse(s) ==
    IF Len(s) # 2 THEN [ result |-> "parse-point", point |-> <<0, 0>> ]
    ELSE IF is_digit(s[1]) /\ is_digit(s[2])
         THEN LET val == 10 * digit_of(s[1]) + digit_of(s[2])
              IN  [ result |-> "Ok", point |-> << val \div 10, val % 10 >> ]
    ELSE IF s[1] = "+" /\ is_digit(s[2])
         THEN [ result |-> "Ok", point |-> << 0, digit_of(s[2]) >> ]
    ELSE [ result |-> "parse-point", point |-> <<0, 0>> ]

\* Tetromino::notate
Tetromino_notate(tet) ==
    LET p == points_real(tet)
    IN  << Colour_notate(tet.colour), "[" >>
            \o Point_notate(p[1]) \o << "," >> \o Point_notate(p[2]) \o << "," >>
            \o Point_notate(p[3]) \o << "," >> \o Point_notate(p[4]) \o << "]" >>

\* Tetromino::from_points_with_anchor: the first canonical transform of the
\* reference piece all of whose points are among the given ones.
from_points_with_anchor(colour, anchor, points) ==
    LET all   == enumerate_transforms(get_reference_tetromino(colour, anchor))
        fits  == { k \in DOMAIN all : Range(all[k].points) \subseteq Range(points) }
    IN  IF fits = {} THEN [ result |-> "parse-shape", tetromino |-> "none" ]
        ELSE [ result    |-> "Ok",
               tetromino |-> [ colour    |-> colour,
                               anchor    |-> anchor,
                               points    |-> all[Min(fits)].points,
                               transform |-> all[Min(fits)].transform ] ]

\* Tetromino::from_points_with_colour
from_points_with_colour(colour, points) ==
    from_points_with_anchor(colour, normalize_anchor(points), normalize(points))

\* Tetromino::parse: the text has to match ^([LITS])\[(\d{2}),(\d{2}),(\d{2}),(\d{2})\]$.
Tetromino_parse(s) ==
    LET matches ==
            /\ Len(s) = 14
            /\ s[1] \in { "L", "I", "T", "S" }
            /\ s[2] = "[" /\ s[5] = "," /\ s[8] = "," /\ s[11] = "," /\ s[14] = "]"
            /\ \A k \in { 3, 4, 6, 7, 9, 10, 12, 13 } : is_digit(s[k])
        parsed == [ k \in 1 .. 4 |-> Point_parse(SubSeq(s, 3 * k, 3 * k + 1)) ]
    IN  IF ~ matches THEN [ result |-> "parse-tetromino", tetromino |-> "none" ]
        ELSE IF \E k \in 1 .. 4 : parsed[k].result # "Ok"
             THEN [ result |-> "parse-point", tetromino |-> "none" ]
        ELSE from_points_with_colour(Colour_parse(s[1]), [ k \in 1 .. 4 |-> parsed[k].point ])

(***************************************************************************)
(* game.rs                                                                 *)
(***************************************************************************)

\* Game::new
Game_new ==
    [ curr_board |-> Board_blank,
      base_board |-> Board_blank,
      hist_stack |-> << >>,
      redo_stack |-> << >>,
      to_move    |-> "X" ]

\* Game::to_move: the field of the game, not the board's.
Game_to_move(g) == g.to_move

\* Vec::last and Vec::pop: the top of a stack is the end of the sequence.
Last(stack) == stack[Len(stack)]

Pop(stack) == SubSeq(stack, 1, Len(stack) - 1)

\* An apply that empties redo_stack whatever its top is.
apply_clears_future(g, tet) ==
    LET placed == place_tetromino(g.curr_board, tet)
    IN  IF placed.result = "Ok"
        THEN [ result |-> "Ok",
               game   |-> [ g EXCEPT
                   !.curr_board = placed.board,
                   !.hist_stack = Append(@, tet),
                   !.redo_stack = << >> ] ]
        ELSE [ result |-> placed.result, game |-> g ]

\* Game::apply: the result and the game it leaves.
apply(g, tet) ==
    LET placed == place_tetromino(g.curr_board, tet)
    IN  IF placed.result = "Ok"
        THEN [ result |-> "Ok",
               game   |-> [ g EXCEPT
                   !.curr_board = placed.board,
                   !.hist_stack = Append(@, tet),
                   !.redo_stack = IF @ # << >>
                                  THEN IF Last(@) = tet THEN Pop(@) ELSE << >>
                                  ELSE @ ] ]
        ELSE [ result |-> placed.result, game |-> g ]

\* An undo that puts the tetromino under redo_stack instead of on top of it.
undo_pushes_below(g) ==
    IF g.hist_stack # << >>
    THEN LET tetromino == Last(g.hist_stack)
             undone    == undo_tetromino(g.curr_board, tetromino)
         IN  IF undone.result # "Ok"
             THEN [ result |-> undone.result, game |-> g ]
             ELSE [ result |-> "Ok",
                    game   |-> [ g EXCEPT
                        !.curr_board = undone.board,
                        !.hist_stack = Pop(@),
                        !.redo_stack = <<tetromino>> \o @ ] ]
    ELSE [ result |-> "history-empty", game |-> g ]

\* Game::undo: the result and the game it leaves.
undo(g) ==
    IF g.hist_stack # << >>
    THEN LET tetromino == Last(g.hist_stack)
             undone    == undo_tetromino(g.curr_board, tetromino)
         IN  IF undone.result # "Ok"
             THEN [ result |-> undone.result, game |-> g ]
             ELSE [ result |-> "Ok",
                    game   |-> [ g EXCEPT
                        !.curr_board = undone.board,
                        !.hist_stack = Pop(@),
                        !.redo_stack = Append(@, tetromino) ] ]
    ELSE [ result |-> "history-empty", game |-> g ]

\* Vec::reverse
Reverse(stack) == [ k \in 1 .. Len(stack) |-> stack[Len(stack) + 1 - k] ]

\* The lines of a game's notation joined: each move on a line of its own.
RECURSIVE notate_moves(_)
notate_moves(moves) ==
    IF moves = << >> THEN << >>
    ELSE << "\n" >> \o Tetromino_notate(moves[1]) \o notate_moves(Tail(moves))

\* Game::notate: the base board, then hist_stack and the reversed redo_stack.
Game_notate(g) ==
    Board_notate(g.base_board) \o notate_moves(g.hist_stack \o Reverse(g.redo_stack))

\* str::split('\n'): the pieces between the line feeds, empty ones included.
RECURSIVE split_lines(_)
split_lines(s) ==
    IF \A k \in DOMAIN s : s[k] # "\n" THEN << s >>
    ELSE LET at == Min({ k \in DOMAIN s : s[k] = "\n" })
         IN  << SubSeq(s, 1, at - 1) >> \o split_lines(SubSeq(s, at + 1, Len(s)))

\* The loop of Game::parse over the lines after the first.
RECURSIVE parse_moves(_, _, _)
parse_moves(g, line_vec, i) ==
    IF i > Len(line_vec) THEN [ result |-> "Ok", game |-> g ]
    ELSE LET parsed == Tetromino_parse(line_vec[i])
         IN  IF parsed.result # "Ok" THEN [ result |-> parsed.result, game |-> g ]
             ELSE LET placed == place_tetromino(g.curr_board, parsed.tetromino)
                  IN  IF placed.result # "Ok" THEN [ result |-> placed.result, game |-> g ]
                      ELSE parse_moves([ g EXCEPT !.curr_board = placed.board,
                                                  !.hist_stack = Append(@, parsed.tetromino),
                                                  !.to_move = next(@) ],
                                       line_vec, i + 1)

\* Game::parse: the result and the game.
Game_parse(s) ==
    LET line_vec == split_lines(s)
        base     == Board_parse(line_vec[1])
    IN  IF base.result # "Ok" THEN [ result |-> base.result, game |-> "none" ]
        ELSE parse_moves([ curr_board |-> base.board,
                           base_board |-> base.board,
                           hist_stack |-> << >>,
                           redo_stack |-> << >>,
                           to_move    |-> "X" ],
                         line_vec, 2)

(***************************************************************************)
(* tetromino.rs: the movemap                                               *)
(***************************************************************************)

TETROMINO_RANGE == 1293

\* derive(Ord) on Colour, Transform, Point, Vec<Point> and Tetromino: the order
\* in which a BTreeSet<Tetromino> is iterated.
colour_ord(c) == IF c = "None" THEN 4 ELSE as_index(c)

transform_ord(t) == CHOOSE i \in DOMAIN as_array : as_array[i] = t

PointLess(p, q) == p[1] < q[1] \/ (p[1] = q[1] /\ p[2] < q[2])

RECURSIVE VecLess(_, _, _)
VecLess(a, b, i) ==
    IF i > Len(a) THEN i <= Len(b)
    ELSE IF i > Len(b) THEN FALSE
    ELSE IF a[i] # b[i] THEN PointLess(a[i], b[i])
    ELSE VecLess(a, b, i + 1)

TetrominoLess(a, b) ==
    IF a.colour # b.colour THEN colour_ord(a.colour) < colour_ord(b.colour)
    ELSE IF a.anchor # b.anchor THEN PointLess(a.anchor, b.anchor)
    ELSE IF a.points # b.points THEN VecLess(a.points, b.points, 1)
    ELSE transform_ord(a.transform) < transform_ord(b.transform)

RECURSIVE ascending(_)
ascending(S) ==
    IF S = {} THEN << >>
    ELSE LET m == CHOOSE t \in S : \A u \in S \ {t} : TetrominoLess(t, u)
         IN  <<m>> \o ascending({ t \in S : t # m })

RECURSIVE Flatten(_)
Flatten(ss) == IF ss = << >> THEN << >> ELSE Head(ss) \o Flatten(Tail(ss))

RECURSIVE SortInts(_)
SortInts(X) == IF X = {} THEN << >> ELSE <<Min(X)>> \o SortInts(X \ {Min(X)})

\* The iteration of a BTreeSet<Tetromino>: ascending in TetrominoLess, taken
\* key by key: the colour first, then the anchor's x, then its y, then the rest.
btree_iter(S) ==
    LET by_y(Sx) ==
            LET ys == SortInts({ t.anchor[2] : t \in Sx })
            IN  Flatten([ i \in DOMAIN ys |->
                    ascending({ t : t \in { u \in Sx : u.anchor[2] = ys[i] } }) ])
        by_x(Sc) ==
            LET xs == SortInts({ t.anchor[1] : t \in Sc })
            IN  Flatten([ i \in DOMAIN xs |->
                    by_y({ t : t \in { u \in Sc : u.anchor[1] = xs[i] } }) ])
        cs == SortInts({ colour_ord(t.colour) : t \in S })
    IN  Flatten([ i \in DOMAIN cs |->
            by_x({ t : t \in { u \in S : colour_ord(u.colour) = cs[i] } }) ])

\* HashMap::insert of every pair of the map `pairs` into the map `map`.
insert_all(map, pairs) ==
    [ k \in DOMAIN map \cup DOMAIN pairs |-> IF k \in DOMAIN pairs THEN pairs[k] ELSE map[k] ]

\* Tetromino::initialize over the moves it iterates: the entries it inserts in
\* MOVEMAP_REV (idx counts from 1; the null tetromino is entry 1 with the colour
\* None, stored at 0) ...
initialize_rev(moves) ==
    LET template == [ moves[1] EXCEPT !.colour = "None" ]
    IN  [ n \in 0 .. Len(moves) |-> IF n = 0 THEN template ELSE moves[n] ]

\* A forward table that gives the null piece the ID after the last one.
initialize_fwd_null_last(moves) ==
    LET template == [ moves[1] EXCEPT !.colour = "None" ]
    IN  [ t \in Range(moves) \cup {template} |->
            IF t = template THEN Len(moves) + 1 ELSE CHOOSE n \in DOMAIN moves : moves[n] = t ]

\* ... and in MOVEMAP_FWD.
initialize_fwd(moves) ==
    LET template == [ moves[1] EXCEPT !.colour = "None" ]
    IN  [ t \in Range(moves) \cup {template} |->
            IF t = template THEN 0 ELSE CHOOSE n \in DOMAIN moves : moves[n] = t ]

\* impl From<usize> for Tetromino: get(& n).unwrap() panics on a missing key.
from(rev, n) ==
    IF n \in DOMAIN rev THEN [ result |-> "Ok", value |-> rev[n] ]
                        ELSE [ result |-> "panic", value |-> "none" ]

\* impl Into<usize> for Tetromino
into(fwd, t) ==
    IF t \in DOMAIN fwd THEN [ result |-> "Ok", value |-> fwd[t] ]
                        ELSE [ result |-> "panic", value |-> "none" ]

\* Tetromino::range
range(fwd) == Cardinality(DOMAIN fwd)

(***************************************************************************)
(* engine mcts/node.rs                                                     *)
(*                                                                         *)
(* A MoveID is carried as the tetromino it numbers (from and into are      *)
(* inverse on the table, C10), the id 0 as the null tetromino.  The f32    *)
(* fields n and v are integers: n counts visits, v is in units of 1/Unit.  *)
(* The prior p is left out: its values are the network's.                  *)
(***************************************************************************)

Unit == 10000

\* Tetromino::null: the entry 0 of MOVEMAP_REV, which Tetromino::initialize makes
\* of the first move of the blank board with the colour None.
Tetromino_null == [ Tetromino_new("L", <<0, 0>>, "Identity") EXCEPT !.colour = "None" ]

\* <Outcome as From<f32>>::from
Outcome_from(val) == IF val > 0 THEN "Win" ELSE "Loss"

\* Outcome::next
Outcome_next(o) == CASE o = "Win" -> "Loss" [] o = "Loss" -> "Win"

\* Outcome::value
Outcome_value(o) == IF o = "Win" THEN Unit ELSE 0

\* Node::is_unsolved
is_unsolved(node) == node.outcome = "None"

\* Node::is_visited
is_visited(node) == node.num_children > 0

\* Node::is_unvisited
is_unvisited(node) == is_unsolved(node) /\ ~ is_visited(node)

\* A Node::new that counts the creation of the node as its first visit.
Node_new_visited(id, parent, state, outcome, in_action) ==
    [ id           |-> id,
      parent       |-> parent,
      oldest_child |-> 0,
      num_children |-> 0,
      state        |-> state,
      in_action    |-> in_action,
      outcome      |-> outcome,
      n            |-> 1,
      v            |-> 0 ]

\* Node::new; the Option of a parent is the sequence of none or one id.
Node_new(id, parent, state, outcome, in_action) ==
    [ id           |-> id,
      parent       |-> parent,
      oldest_child |-> 0,
      num_children |-> 0,
      state        |-> state,
      in_action    |-> in_action,
      outcome      |-> outcome,
      n            |-> 0,
      v            |-> 0 ]

\* Node::visit
Node_visit(node, oldest_child, num_children) ==
    [ node EXCEPT !.oldest_child = oldest_child, !.num_children = num_children ]

(***************************************************************************)
(* engine mcts/searcher.rs: the tree of one searcher.  The node with id k  *)
(* is tree[k + 1].                                                         *)
(***************************************************************************)

\* MCTSConfig::discount, 0.99, in hundredths.
discount == 99

\* The visit count at which the model stops counting (an f32 stops at 2^24);
\* the value sum v stops at as many units, on either side.
MaxVisits == 5

saturate(v) ==
    IF v > MaxVisits * Unit THEN MaxVisits * Unit
    ELSE IF v < - (MaxVisits * Unit) THEN - (MaxVisits * Unit)
    ELSE v

\* Searcher::node_immut
node_immut(tree, id) == tree[id + 1]

\* Board::has_moves as the searcher calls it: enumerate_moves is not empty,
\* decided at the first move found.
some_move(b) ==
    \E attach \in DOMAIN b.attach_points :
        \E anchor \in get_potential_anchors(attach) :
            \E colour \in b.attach_points[attach] :
                /\ b.pieces_remaining[as_index(colour)] > 0
                /\ \E tet \in Range(enumerate_transforms(get_reference_tetromino(colour, anchor))) :
                       validate_tetromino(b, tet) = "Ok"

\* Searcher::children_of_immut: the slice of the children of a node.
children_of_immut(tree, id) ==
    LET node == node_immut(tree, id)
    IN  [ k \in 1 .. node.num_children |-> tree[node.oldest_child + k] ]

\* A backpropagate that settles a node as soon as one of its children is
\* solved, without the test `all`.
RECURSIVE backpropagate_settles_early(_, _, _, _)
backpropagate_settles_early(tree, id, val, has_sol) ==
    LET node     == node_immut(tree, id)
        children == Range(children_of_immut(tree, id))
        worst_outcome ==
            IF \A child \in children : is_unsolved(child) THEN "None"
            ELSE IF \E child \in children : child.outcome = "Loss" THEN "Loss"
            ELSE "Win"
        examine  == has_sol /\ is_unsolved(node)
        wins     == examine /\ worst_outcome = "Loss"
        settles  == examine /\ ~ wins /\ is_visited(node) /\ worst_outcome # "None"
        outcome  == IF wins THEN "Win"
                    ELSE IF settles THEN Outcome_next(worst_outcome)
                    ELSE node.outcome
        new_val  == IF wins THEN (- node.v) + (node.n + 1) * Unit
                    ELSE IF settles THEN (- node.v) - (node.n + 1) * Unit
                    ELSE val
        new_sol  == IF examine THEN wins \/ settles ELSE has_sol
        updated  == [ node EXCEPT
                        !.outcome = outcome,
                        !.v = saturate(@ + new_val),
                        !.n = IF @ < MaxVisits THEN @ + 1 ELSE @ ]
        new_tree == [ tree EXCEPT ![id + 1] = updated ]
    IN  IF node.parent = << >> THEN new_tree
        ELSE backpropagate_settles_early(new_tree, node.parent[1],
                                         (- (discount * new_val)) \div 100, new_sol)

\* A backpropagate that examines solved nodes too and writes the outcome it
\* finds, none when the children do not decide it.
RECURSIVE backpropagate_relabels(_, _, _, _)
backpropagate_relabels(tree, id, val, has_sol) ==
    LET node     == node_immut(tree, id)
        children == Range(children_of_immut(tree, id))
        all      == \A child \in children : ~ is_unsolved(child)
        worst_outcome ==
            IF \A child \in children : is_unsolved(child) THEN "None"
            ELSE IF \E child \in children : child.outcome = "Loss" THEN "Loss"
            ELSE "Win"
        examine  == has_sol
        wins     == examine /\ worst_outcome = "Loss"
        settles  == examine /\ ~ wins /\ is_visited(node) /\ all
        outcome  == IF wins THEN "Win"
                    ELSE IF settles THEN Outcome_next(worst_outcome)
                    ELSE IF examine THEN "None"
                    ELSE node.outcome
        new_val  == IF wins THEN (- node.v) + (node.n + 1) * Unit
                    ELSE IF settles THEN (- node.v) - (node.n + 1) * Unit
                    ELSE val
        new_sol  == IF examine THEN wins \/ settles ELSE has_sol
        updated  == [ node EXCEPT
                        !.outcome = outcome,
                        !.v = saturate(@ + new_val),
                        !.n = IF @ < MaxVisits THEN @ + 1 ELSE @ ]
        new_tree == [ tree EXCEPT ![id + 1] = updated ]
    IN  IF node.parent = << >> THEN new_tree
        ELSE backpropagate_relabels(new_tree, node.parent[1],
                                    (- (discount * new_val)) \div 100, new_sol)

\* Searcher::backpropagate
RECURSIVE backpropagate(_, _, _, _)
backpropagate(tree, id, val, has_sol) ==
    LET node     == node_immut(tree, id)
        children == Range(children_of_immut(tree, id))
        all      == \A child \in children : ~ is_unsolved(child)
        worst_outcome ==
            IF \A child \in children : is_unsolved(child) THEN "None"
            ELSE IF \E child \in children : child.outcome = "Loss" THEN "Loss"
            ELSE "Win"
        examine  == has_sol /\ is_unsolved(node)
        wins     == examine /\ worst_outcome = "Loss"
        settles  == examine /\ ~ wins /\ is_visited(node) /\ all
        outcome  == IF wins THEN "Win"
                    ELSE IF settles THEN Outcome_next(worst_outcome)
                    ELSE node.outcome
        new_val  == IF wins THEN (- node.v) + (node.n + 1) * Unit
                    ELSE IF settles THEN (- node.v) - (node.n + 1) * Unit
                    ELSE val
        new_sol  == IF examine THEN wins \/ settles ELSE has_sol
        updated  == [ node EXCEPT
                        !.outcome = outcome,
                        !.v = saturate(@ + new_val),
                        !.n = IF @ < MaxVisits THEN @ + 1 ELSE @ ]
        new_tree == [ tree EXCEPT ![id + 1] = updated ]
    IN  IF node.parent = << >> THEN new_tree
        ELSE backpropagate(new_tree, node.parent[1], (- (discount * new_val)) \div 100, new_sol)

\* A visit whose children take their ids from the length of the tree after
\* the push, one more than their index.
expand_ids_after_push(tree, id, val, board_, moves) ==
    LET insertion_point == Len(tree)
        child(k) ==
            CHOOSE node \in
                { Node_new(insertion_point + k, <<id>>, next_state,
                           IF ~ some_move(next_state)
                           THEN Outcome_from(score(board_) * value(board_.to_move))
                           ELSE "None",
                           moves[k])
                  : next_state \in { place_tetromino(board_, moves[k]).board } } : TRUE
    IN  CHOOSE visited \in
            { [ tree  |-> [ (tree \o children) EXCEPT
                              ![id + 1] = Node_visit(@, insertion_point, Len(moves)) ],
                value |-> val,
                any   |-> \E k \in 1 .. Len(moves) : children[k].outcome # "None" ]
              : children \in { [ k \in 1 .. Len(moves) |-> child(k) ] } } : TRUE

\* The loop of Searcher::visit over the moves of the board of the node and
\* the lines after it.  A set of one element names a value that is computed
\* once: the board after each move, the children.
expand(tree, id, val, board_, moves) ==
    LET insertion_point == Len(tree)
        child(k) ==
            CHOOSE node \in
                { Node_new(insertion_point + k - 1, <<id>>, next_state,
                           IF ~ some_move(next_state)
                           THEN Outcome_from(score(board_) * value(board_.to_move))
                           ELSE "None",
                           moves[k])
                  : next_state \in { place_tetromino(board_, moves[k]).board } } : TRUE
    IN  CHOOSE visited \in
            { [ tree  |-> [ (tree \o children) EXCEPT
                              ![id + 1] = Node_visit(@, insertion_point, Len(moves)) ],
                value |-> val,
                any   |-> \E k \in 1 .. Len(moves) : children[k].outcome # "None" ]
              : children \in { [ k \in 1 .. Len(moves) |-> child(k) ] } } : TRUE

\* Searcher::visit on the value the network predicts: the tree it leaves,
\* the value and whether a child is terminal.
visit(tree, id, val) ==
    CHOOSE visited \in
        { expand(tree, id, val, board_, moves)
          : board_ \in { node_immut(tree, id).state },
            moves \in { btree_iter(found)
                        : found \in { enumerate_moves(node_immut(tree, id).state) } } } : TRUE

\* Searcher::continuation: the ids it can return.  Q + U is a float built on
\* the network's priors; any child can be the one that maximises it.  No
\* child: unwrap of None, a panic.
continuation(tree, id) ==
    { child.id : child \in Range(children_of_immut(tree, id)) }

\* An eval or a score: the fraction <<numerator, denominator>> in units of
\* 1/Unit, with f32::INFINITY and f32::NEG_INFINITY as the fractions over 0.
Infinity == <<1, 0>>

NegInfinity == <<-1, 0>>

Zero == <<0, 1>>

\* The order of f32 on such values.
EvalLess(a, b) ==
    IF a[2] = 0 /\ b[2] = 0 THEN a[1] < b[1] ELSE a[1] * b[2] < b[1] * a[2]

\* Searcher::get_q, as a fraction in units of 1/Unit.
get_q(tree, parent, child) ==
    LET parent_node == node_immut(tree, parent)
        child_node  == node_immut(tree, child)
    IN  IF child_node.outcome # "None"
        THEN << Outcome_value(Outcome_next(child_node.outcome)), 1 >>
        ELSE IF child_node.num_children = 0
        THEN << parent_node.v, parent_node.n >>
        ELSE << - child_node.v, child_node.n >>

\* Searcher::new; the private fields phase, cur, value, found_leaf, age and
\* elapsed are the place of the searcher's thread in its code: the id of the
\* inner loop of search_root, the pair visit returned to it, the time since
\* `start` and the value of `end - start`;
\* late_visits counts, up to two, the calls of visit made in one descent while
\* stop is set.
Searcher_new(id) ==
    [ id            |-> id,
      kill          |-> FALSE,
      search_status |-> TRUE,
      state         |-> Board_blank,
      solve_for     |-> "None",
      tree          |-> << >>,
      root          |-> 0,
      best_move     |-> Tetromino_null,
      best_eval     |-> Zero,
      phase         |-> "spawned",
      cur           |-> 0,
      value         |-> 0,
      found_leaf    |-> FALSE,
      peer          |-> 0,
      age           |-> 0,
      elapsed       |-> 0,
      late_visits   |-> 0 ]

\* Searcher::clear
clear(s) ==
    [ s EXCEPT !.tree = << >>, !.root = 0, !.state = Board_blank,
               !.best_move = Tetromino_null, !.best_eval = Zero ]

\* Searcher::initialize
Searcher_initialize(s, position) ==
    [ clear(s) EXCEPT
        !.state     = position,
        !.solve_for = position.to_move,
        !.tree      = << Node_new(0, << >>, position, "None", Tetromino_null) >>,
        !.root      = 0 ]

\* Searcher::is_main
is_main(s) == s.id = 0

\* The fold of best_av_pair over the children of the root.
RECURSIVE best_child(_, _, _, _)
best_child(children, k, best_move, best_score) ==
    IF k > Len(children) THEN [ move |-> best_move, score |-> best_score ]
    ELSE LET child == children[k]
             sc    == CASE child.outcome = "Win"  -> NegInfinity
                        [] child.outcome = "Loss" -> Infinity
                        [] OTHER -> << - child.v, IF child.n > 1 THEN child.n ELSE 1 >>
         IN  IF EvalLess(best_score, sc)
             THEN best_child(children, k + 1, child.in_action, sc)
             ELSE best_child(children, k + 1, best_move, best_score)

\* Searcher::best_av_pair: the pair and the searcher it leaves; indexing the
\* root of an empty tree panics.
best_av_pair(s) ==
    IF ~ some_move(s.state)
    THEN [ result |-> "Ok", move |-> Tetromino_null, score |-> NegInfinity, searcher |-> s ]
    ELSE IF s.root + 1 > Len(s.tree)
    THEN [ result |-> "panic", move |-> Tetromino_null, score |-> NegInfinity, searcher |-> s ]
    ELSE LET best == best_child(children_of_immut(s.tree, s.root), 1, Tetromino_null, NegInfinity)
         IN  [ result   |-> "Ok",
               move     |-> best.move,
               score    |-> best.score,
               searcher |-> [ s EXCEPT !.best_move = best.move, !.best_eval = best.score ] ]

(***************************************************************************)
(* engine mcts/threadpool.rs                                               *)
(***************************************************************************)

\* MCTSConfig::num_threads, the N of set_num_threads.
num_threads == 1

\* MCTSConfig::max_time_ms, in ticks of the clock.
max_time_ms == 1

Searchers == 0 .. num_threads - 1

\* self.threads.len() of ThreadPool, the bound of its loops over the searchers.
threads_len == Cardinality(DOMAIN threads)

\* ThreadPool::new; work_cond is the latch Searcher::launch_main names.
ThreadPool_new ==
    [ state     |-> Board_blank,
      best_move |-> Tetromino_null,
      cond      |-> FALSE,
      work_cond |-> FALSE,
      stop      |-> TRUE ]

\* The entries of the movemap of ThreadPool::launch are those of the moves of
\* self.state.enumerate_moves(), which are the tetrominoes validate_tetromino
\* accepts on it (C3).
movemap_has(state, key) == key # Tetromino_null /\ validate_tetromino(state, key) = "Ok"

\* An entry no child has been added to.
NoStats == [ visits |-> 0, eval |-> Zero, components |-> 0 ]

\* The entry of a key: the one written last, or the one inserted at first.
entry_of(movemap, key) == IF key \in DOMAIN movemap THEN movemap[key] ELSE NoStats

\* The body of the loop over the children of a root, ThreadPool::launch.
add_child(entry, child) ==
    IF ~ is_unsolved(child)
    THEN [ visits     |-> entry.visits + child.n,
           eval       |-> IF child.outcome = "Win" THEN Infinity ELSE NegInfinity,
           components |-> entry.components + 1 ]
    ELSE [ visits     |-> entry.visits + child.n,
           eval       |-> IF entry.eval[2] = 0 /\ entry.components > 0 THEN entry.eval
                          ELSE << entry.components * entry.eval[1] - child.v * entry.eval[2],
                                  entry.eval[2] * (entry.components + 1) >>,
           components |-> entry.components + 1 ]

\* The loop over the children of one searcher's root: the entries written so
\* far, or the panic of an unwrap on a key the movemap has not, or of an index
\* into an empty tree.
RECURSIVE add_children(_, _, _, _)
add_children(state, movemap, children, k) ==
    IF k > Len(children) THEN [ result |-> "Ok", movemap |-> movemap ]
    ELSE LET key == children[k].in_action
         IN  IF ~ movemap_has(state, key)
             THEN [ result |-> "panic", movemap |-> movemap ]
             ELSE add_children(state,
                      [ x \in DOMAIN movemap \cup {key} |->
                          IF x = key THEN add_child(entry_of(movemap, key), children[k])
                          ELSE movemap[x] ],
                      children, k + 1)

reduce_searcher(state, movemap, s) ==
    IF s.root + 1 > Len(s.tree) THEN [ result |-> "panic", movemap |-> movemap ]
    ELSE add_children(state, movemap, children_of_immut(s.tree, s.root), 1)

\* movevec.first() after the sort by descending eval: an entry of the greatest
\* eval.  The sort is stable and HashMap::into_values yields the entries in the
\* order of the hasher, so any of them can be first; `keys` are the keys the
\* model follows.
first_sorted(state, movemap, keys) ==
    LET present == { key \in DOMAIN movemap \cup keys : movemap_has(state, key) }
    IN  { key \in present :
            \A other \in present :
                ~ EvalLess(entry_of(movemap, key).eval, entry_of(movemap, other).eval) }

(***************************************************************************)
(* The state machine: one board, built by Board::blank or Board::new, and  *)
(* the calls place_tetromino and undo_tetromino made on it.                *)
(***************************************************************************)

AnchorOrder ==
    << <<0, 9>>, <<1, 9>>, <<0, 8>>, <<2, 9>>, <<1, 8>>, <<0, 7>>,
       <<0, 6>>, <<1, 7>>, <<2, 8>>, <<3, 9>> >>

InputAnchors == { AnchorOrder[i] : i \in 1 .. MaxAnchors }

\* The tetrominoes handed to place and undo: every colour and canonical
\* transform at every input anchor.
InputTetrominoes ==
    { Tetromino_new(c, a, t) : c \in Colours, a \in InputAnchors, t \in Transforms }

\* Setup positions handed to Board::new: no tiles, or the one piece S[08,18,19,29].
SetupS == set_tiles(NoTiles, { <<0, 8>>, <<1, 8>>, <<1, 9>>, <<2, 9>> }, "S")

\* The boards of Board::new (and of Board::parse, which ends in it): a setup
\* piece beside a full pool, and a pool of one last I piece on an empty board.
NewBoards ==
    { Board_new(NoScore, SetupS, [ i \in 0 .. 3 |-> 5 ], "O"),
      Board_new(NoScore, NoTiles, [ i \in 0 .. 3 |-> IF i = 1 THEN 1 ELSE 0 ], "X") }

InitMaps ==
    /\ MOVEMAP_FWD = << >>
    /\ MOVEMAP_REV = << >>
    /\ game = Game_new
    /\ pool = << >>
    /\ threads = << >>
    /\ caller = << >>

\* Any board of Board::blank or Board::new.
Init ==
    /\ board \in {Board_blank} \cup NewBoards
    /\ call = [ op |-> "new", result |-> "Ok", value |-> "unit" ]
    /\ InitMaps

\* The board of Board::blank only.
InitBlank ==
    /\ board = Board_blank
    /\ call = [ op |-> "new", result |-> "Ok", value |-> "unit" ]
    /\ InitMaps

Place(tet) ==
    /\ LET r == place_tetromino(board, tet)
       IN  /\ board' = r.board
           /\ call' = [ op |-> "place", result |-> r.result, value |-> "unit" ]
    /\ UNCHANGED <<MOVEMAP_FWD, MOVEMAP_REV, game, pool, threads, caller>>

Undo(tet) ==
    /\ LET r == undo_tetromino(board, tet)
       IN  /\ board' = r.board
           /\ call' = [ op |-> "undo", result |-> r.result, value |-> "unit" ]
    /\ UNCHANGED <<MOVEMAP_FWD, MOVEMAP_REV, game, pool, threads, caller>>

\* Tetromino::initialize: the two maps it leaves.
initialize(fwd, rev) ==
    LET moves == btree_iter(enumerate_moves(Board_blank))
    IN  [ fwd |-> insert_all(fwd, initialize_fwd(moves)),
          rev |-> insert_all(rev, initialize_rev(moves)) ]

\* Tetromino::initialize, which main calls once, first (engine main.rs, client
\* main.rs), before any board is played on.
Initialize ==
    /\ MOVEMAP_FWD = << >>
    /\ call.op = "new"
    /\ \E maps \in { initialize(MOVEMAP_FWD, MOVEMAP_REV) } :
           /\ MOVEMAP_FWD' = maps.fwd
           /\ MOVEMAP_REV' = maps.rev
    /\ UNCHANGED <<board, call, game, pool, threads, caller>>

\* usize -> Tetromino on an input ID.
From(n) ==
    /\ LET r == from(MOVEMAP_REV, n)
       IN  call' = [ op |-> "from", result |-> r.result, value |-> r.value ]
    /\ UNCHANGED <<board, MOVEMAP_FWD, MOVEMAP_REV, game, pool, threads, caller>>

\* Tetromino -> usize on an input tetromino.
Into(tet) ==
    /\ LET r == into(MOVEMAP_FWD, tet)
       IN  call' = [ op |-> "into", result |-> r.result, value |-> r.value ]
    /\ UNCHANGED <<board, MOVEMAP_FWD, MOVEMAP_REV, game, pool, threads, caller>>

\* The IDs handed to from: the first ones, the last one, and the first one
\* out of range.
InputIds == (0 .. MaxId) \cup { TETROMINO_RANGE - 1, TETROMINO_RANGE }

Next ==
    \/ \E tet \in InputTetrominoes : Place(tet)
    \/ \E tet \in InputTetrominoes : Undo(tet)

NextIds ==
    \/ Initialize
    \/ \E n \in InputIds : From(n)
    \/ \E tet \in InputTetrominoes : Into(tet)

\* Boards of Board::blank and Board::new under place and undo.
Spec == Init /\ [][Next]_vars

\* The board of Board::blank under place and undo.
SpecBlank == InitBlank /\ [][Next]_vars

\* The movemap: initialize, and the conversions either way.
SpecIds == InitBlank /\ [][NextIds]_vars

\* Scoring tiles handed to Board::new: X on (0,9) and (3,8), O on (3,9), (1,8)
\* and (5,4).
SetupScore ==
    [ i \in 0 .. 9 |-> [ j \in 0 .. 9 |->
        IF <<i, j>> \in { <<0, 9>>, <<3, 8>> } THEN "X"
        ELSE IF <<i, j>> \in { <<3, 9>>, <<1, 8>>, <<5, 4>> } THEN "O"
        ELSE "None" ] ]

\* The one setup piece L[49,59,69,68].
SetupL == set_tiles(NoTiles, { <<4, 9>>, <<5, 9>>, <<6, 9>>, <<6, 8>> }, "L")

\* A setup that leaves only the tiles (5,5), (5,4) and (9,0) free.
SetupCrowded ==
    [ i \in 0 .. 9 |-> [ j \in 0 .. 9 |->
        IF <<i, j>> \in { <<5, 5>>, <<5, 4>>, <<9, 0>> } THEN "None" ELSE "L" ] ]

\* Boards of Board::new with scoring tiles: the setup piece beside a pool of
\* one last I piece and one last T piece, for either player, and a crowded
\* board beside a full pool.
ResultBoards ==
    { Board_new(SetupScore, SetupL, [ i \in 0 .. 3 |-> IF i \in {1, 2} THEN 1 ELSE 0 ], "X"),
      Board_new(SetupScore, SetupL, [ i \in 0 .. 3 |-> IF i \in {1, 2} THEN 1 ELSE 0 ], "O"),
      Board_new(SetupScore, SetupCrowded, [ i \in 0 .. 3 |-> 5 ], "X") }

InitResult ==
    /\ board \in ResultBoards
    /\ call = [ op |-> "new", result |-> "Ok", value |-> "unit" ]
    /\ InitMaps

\* Board::result on the board.
Result ==
    /\ LET r == result(board)
       IN  call' = [ op |-> "result", result |-> r.outcome, value |-> r.score ]
    /\ UNCHANGED <<board, MOVEMAP_FWD, MOVEMAP_REV, game, pool, threads, caller>>

NextResult ==
    \/ \E tet \in InputTetrominoes : Place(tet)
    \/ \E tet \in InputTetrominoes : Undo(tet)
    \/ Result

\* Boards of Board::new with scoring tiles under place, undo and result.
SpecResult == InitResult /\ [][NextResult]_vars

\* Game::apply on an input tetromino.
Apply(tet) ==
    /\ LET r == apply(game, tet)
       IN  /\ game' = r.game
           /\ call' = [ op |-> "apply", result |-> r.result, value |-> "unit" ]
    /\ UNCHANGED <<board, MOVEMAP_FWD, MOVEMAP_REV, pool, threads, caller>>

\* Game::undo
GameUndo ==
    /\ LET r == undo(game)
       IN  /\ game' = r.game
           /\ call' = [ op |-> "game-undo", result |-> r.result, value |-> "unit" ]
    /\ UNCHANGED <<board, MOVEMAP_FWD, MOVEMAP_REV, pool, threads, caller>>

\* The tetrominoes handed to Game::apply: the input tetrominoes of two colours.
GameTetrominoes == { t \in InputTetrominoes : t.colour \in {"I", "T"} }

NextGame ==
    \/ \E tet \in GameTetrominoes : Apply(tet)
    \/ GameUndo

\* The game of Game::new under apply and undo.
SpecGame == InitBlank /\ [][NextGame]_vars

(***************************************************************************)
(* The game of Game::new and games of Game::parse under apply and undo.    *)
(***************************************************************************)

\* The notation of a board without tiles whose pool holds one I and one T
\* piece, alone and followed by the line of one move.
LineTexts ==
    LET base == Board_notate(Board_new(NoScore, NoTiles,
                                       [ i \in 0 .. 3 |-> IF i \in {1, 2} THEN 1 ELSE 0 ], "X"))
    IN  { base, base \o notate_moves(<< Tetromino_new("T", <<0, 8>>, "Identity") >>) }

LineGames == { Game_new } \cup { Game_parse(s).game : s \in LineTexts }

InitLine ==
    /\ board = Board_blank
    /\ game \in LineGames
    /\ call = [ op |-> "new", result |-> "Ok", value |-> "unit" ]
    /\ MOVEMAP_FWD = << >>
    /\ MOVEMAP_REV = << >>
    /\ pool = << >>
    /\ threads = << >>
    /\ caller = << >>

\* Games of Game::new and of Game::parse under apply and undo.
SpecLine == InitLine /\ [][NextGame]_vars

(***************************************************************************)
(* A board and a game side by side, each call kept with its argument.  The *)
(* two objects share nothing: a behaviour calls the board or the game.     *)
(***************************************************************************)

\* Board::place_tetromino on the board.
PlaceOn(tet) ==
    /\ call.op \in {"new", "place", "undo"}
    /\ LET r == place_tetromino(board, tet)
       IN  /\ board' = r.board
           /\ call' = [ op |-> "place", result |-> r.result, value |-> tet ]
    /\ UNCHANGED <<MOVEMAP_FWD, MOVEMAP_REV, game, pool, threads, caller>>

\* Board::undo_tetromino on the board.
UndoOn(tet) ==
    /\ call.op \in {"new", "place", "undo"}
    /\ LET r == undo_tetromino(board, tet)
       IN  /\ board' = r.board
           /\ call' = [ op |-> "undo", result |-> r.result, value |-> tet ]
    /\ UNCHANGED <<MOVEMAP_FWD, MOVEMAP_REV, game, pool, threads, caller>>

\* Game::apply on the game.
ApplyOn(tet) ==
    /\ call.op \in {"new", "apply", "game-undo"}
    /\ LET r == apply(game, tet)
       IN  /\ game' = r.game
           /\ call' = [ op |-> "apply", result |-> r.result, value |-> tet ]
    /\ UNCHANGED <<board, MOVEMAP_FWD, MOVEMAP_REV, pool, threads, caller>>

\* Game::undo on the game.
UndoLast ==
    /\ call.op \in {"new", "apply", "game-undo"}
    /\ LET r == undo(game)
       IN  /\ game' = r.game
           /\ call' = [ op |-> "game-undo", result |-> r.result, value |-> "unit" ]
    /\ UNCHANGED <<board, MOVEMAP_FWD, MOVEMAP_REV, pool, threads, caller>>

\* The boards of Board::new with scoring tiles on which X is to move.
FrameBoards == { b \in ResultBoards : b.to_move = "X" }

InitFrame ==
    /\ board \in FrameBoards
    /\ call = [ op |-> "new", result |-> "Ok", value |-> "unit" ]
    /\ InitMaps

NextFrame ==
    \/ \E tet \in InputTetrominoes : PlaceOn(tet)
    \/ \E tet \in InputTetrominoes : UndoOn(tet)
    \/ \E tet \in GameTetrominoes : ApplyOn(tet)
    \/ UndoLast

\* Boards of Board::new with scoring tiles under place and undo, and the game
\* of Game::new under apply and undo.
SpecFrame == InitFrame /\ [][NextFrame]_vars

(***************************************************************************)
(* A board and its notation: place and undo, the board read back from its  *)
(* own notation, and Board::parse on notations with one place changed.     *)
(***************************************************************************)

\* One change to a notation: the last byte dropped, a byte appended, the byte
\* at a place (counted from 0) replaced, or the two bytes from a place on
\* replaced by the two bytes of one character.
Edits ==
    { [ kind |-> "drop", at |-> 106, byte |-> "" ], [ kind |-> "push", at |-> 107, byte |-> "X" ] }
      \cup { [ kind |-> "put", at |-> k, byte |-> c ] : k \in { 0, 99 }, c \in { "f", "g" } }
      \cup { [ kind |-> "put", at |-> k, byte |-> "." ] : k \in { 100, 105 } }
      \cup { [ kind |-> "put", at |-> k, byte |-> c ] : k \in { 101, 104 }, c \in { "6", "9", "+" } }
      \cup { [ kind |-> "put", at |-> 106, byte |-> c ] : c \in { "_", "?", "x" } }
      \cup { [ kind |-> "wide", at |-> k, byte |-> ByteLead ] : k \in { 0, 98 } }

edited(s, e) ==
    CASE e.kind = "drop" -> SubSeq(s, 1, Len(s) - 1)
      [] e.kind = "push" -> Append(s, e.byte)
      [] e.kind = "put"  -> [ s EXCEPT ![e.at + 1] = e.byte ]
      [] e.kind = "wide" -> [ s EXCEPT ![e.at + 1] = ByteLead, ![e.at + 2] = ByteCont ]

\* Board::parse on the notation of the board: the board is replaced by the
\* one read back.
Reparse ==
    /\ call.op # "parse-text"
    /\ LET r == Board_parse(Board_notate(board))
       IN  /\ board' = IF r.result = "Ok" THEN r.board ELSE board
           /\ call' = [ op |-> "parse", result |-> r.result, value |-> "unit" ]
    /\ UNCHANGED <<MOVEMAP_FWD, MOVEMAP_REV, game, pool, threads, caller>>

\* Board::parse on the notation of the board with one change made to it.
ParseText(e) ==
    /\ call.op # "parse-text"
    /\ LET r == Board_parse(edited(Board_notate(board), e))
       IN  /\ board' = IF r.result = "Ok" THEN r.board ELSE board
           /\ call' = [ op |-> "parse-text", result |-> r.result, value |-> e ]
    /\ UNCHANGED <<MOVEMAP_FWD, MOVEMAP_REV, game, pool, threads, caller>>

\* The blank board, a board of Board::new with a pool of one I piece, and a
\* board of Board::new with scoring tiles and a setup piece.
NotateBoards ==
    { Board_blank,
      Board_new(NoScore, NoTiles, [ i \in 0 .. 3 |-> IF i = 1 THEN 1 ELSE 0 ], "X"),
      Board_new(SetupScore, SetupL, [ i \in 0 .. 3 |-> IF i \in {1, 2} THEN 1 ELSE 0 ], "O") }

InitNotate ==
    /\ board \in NotateBoards
    /\ call = [ op |-> "new", result |-> "Ok", value |-> "unit" ]
    /\ InitMaps

\* Board::place_tetromino and Board::undo_tetromino on the board that is
\* notated.
PlaceNotated(tet) == call.op # "parse-text" /\ Place(tet)

UndoNotated(tet) == call.op # "parse-text" /\ Undo(tet)

NextNotate ==
    \/ \E tet \in InputTetrominoes : PlaceNotated(tet)
    \/ \E tet \in InputTetrominoes : UndoNotated(tet)
    \/ Reparse
    \/ \E e \in Edits : ParseText(e)

\* Boards under place and undo, read back from their notation.
SpecNotate == InitNotate /\ [][NextNotate]_vars

(***************************************************************************)
(* The engine: the pool of MCTS::new, its searcher threads and the thread   *)
(* that calls the search (the loop of LTPInterface).  A search is the       *)
(* broadcast of MCTS::search (the wait for the last search, the store to    *)
(* stop, clear and initialize of every searcher) followed by the release    *)
(* protocol of the pool, ThreadPool::launch: the latch MCTS::search itself   *)
(* releases, main_cond, is not a field of the pool.  Every access to what   *)
(* two threads share is a step of its own.                                  *)
(***************************************************************************)

\* The number of searches the caller makes.
MaxSearches == 2

\* Free tiles of the setup of the root positions: two rows of four with two
\* single tiles above each.
SlotLeft == { <<0, 9>>, <<1, 9>>, <<2, 9>>, <<3, 9>>, <<1, 8>>, <<3, 8>> }

SlotRight == { <<6, 9>>, <<7, 9>>, <<8, 9>>, <<9, 9>>, <<6, 8>>, <<8, 8>> }

SetupAllBut(free) ==
    [ i \in 0 .. 9 |-> [ j \in 0 .. 9 |-> IF <<i, j>> \in free THEN "None" ELSE "L" ] ]

\* A position with two legal moves, each of which leaves the other as the
\* last move of the game, and a position with no legal move.
RootTwo ==
    Board_new(NoScore, SetupAllBut(SlotLeft \cup SlotRight),
              [ i \in 0 .. 3 |-> IF i = 1 THEN 2 ELSE 0 ], "X")

RootNone == Board_new(SetupScore, SetupCrowded, [ i \in 0 .. 3 |-> 5 ], "X")

\* The positions of gen-move.
SearchBoards == { RootTwo, RootNone }

\* The values Network::predict returns, in units of 1/Unit.
OracleValues == { 0 }

\* Keys of the movemap beside the moves of the searched position that the
\* model lets the hasher put first.
StrayKeys == { Tetromino_new("T", <<4, 4>>, as_array[1]) }

Caller_new ==
    [ phase      |-> "ready",
      k          |-> 0,
      position   |-> RootNone,
      sleep_left |-> 0,
      movemap    |-> << >>,
      searches   |-> 0,
      cancelled  |-> FALSE ]

\* MCTS::new: threadpool_initialize, then set_num_threads, which returns as
\* soon as the threads are spawned.
InitPool ==
    /\ board = Board_blank
    /\ call = [ op |-> "new", result |-> "Ok", value |-> "unit" ]
    /\ MOVEMAP_FWD = << >>
    /\ MOVEMAP_REV = << >>
    /\ game = Game_new
    /\ pool = ThreadPool_new
    /\ threads = [ i \in Searchers |-> Searcher_new(i) ]
    /\ caller = Caller_new

rest == <<board, call, MOVEMAP_FWD, MOVEMAP_REV, game>>

\* The closure of ThreadPool::attach_one up to its call of idle.
Spawned(i) ==
    /\ threads[i].phase = "spawned"
    /\ pool' = [ pool EXCEPT !.cond = FALSE ]
    /\ threads' = [ threads EXCEPT ![i].phase = "idle" ]
    /\ UNCHANGED <<caller, rest>>

\* Searcher::idle up to its loop.
Idle(i) ==
    /\ threads[i].phase = "idle"
    /\ threads' = [ threads EXCEPT ![i].search_status = FALSE, ![i].phase = "wait" ]
    /\ UNCHANGED <<pool, caller, rest>>

\* An idle loop that does not load kill after the wait on the latch.
Wake_ignores_kill(i) ==
    /\ threads[i].phase = "wait"
    /\ pool.cond
    /\ threads' = [ threads EXCEPT ![i].phase = "launch" ]
    /\ UNCHANGED <<pool, caller, rest>>

\* Searcher::idle: the wait on the latch and the load of kill.
Wake(i) ==
    /\ threads[i].phase = "wait"
    /\ pool.cond
    /\ threads' = [ threads EXCEPT
                      ![i].phase = IF threads[i].kill THEN "exited" ELSE "launch" ]
    /\ UNCHANGED <<pool, caller, rest>>

\* Searcher::launch up to the loop of search_root (for the main searcher
\* through the first line of launch_main).
SearcherLaunch(i) ==
    /\ threads[i].phase = "launch"
    /\ threads' = [ threads EXCEPT
                      ![i].search_status = TRUE,
                      ![i].phase = "search_root",
                      ![i].age = 0,
                      ![i].elapsed = 0 ]
    /\ pool' = IF is_main(threads[i]) THEN [ pool EXCEPT !.work_cond = TRUE ] ELSE pool
    /\ UNCHANGED <<caller, rest>>

\* A search_root in which the searcher that finds its own root solved stores
\* true to stop as it leaves the loop.
SearchRoot_sets_stop(i) ==
    LET s      == threads[i]
        leave  == IF is_main(s) THEN "main_stop" ELSE "finish"
        solved == /\ ~ pool.stop
                  /\ s.elapsed < max_time_ms
                  /\ s.root + 1 <= Len(s.tree)
                  /\ ~ is_unsolved(node_immut(s.tree, s.root))
    IN  /\ s.phase = "search_root"
        /\ threads' = [ threads EXCEPT ![i] =
              IF pool.stop \/ ~ (s.elapsed < max_time_ms) THEN [ s EXCEPT !.phase = leave ]
              ELSE IF s.root + 1 > Len(s.tree) THEN [ s EXCEPT !.phase = "panicked" ]
              ELSE IF solved THEN [ s EXCEPT !.phase = leave ]
              ELSE [ s EXCEPT !.phase = "descend", !.elapsed = s.age, !.cur = s.root,
                              !.late_visits = 0 ] ]
        /\ pool' = IF solved THEN [ pool EXCEPT !.stop = TRUE ] ELSE pool
        /\ UNCHANGED <<caller, rest>>

\* The condition of the while loop of Searcher::search_root and the two
\* lines that open its body.
SearchRoot(i) ==
    LET s     == threads[i]
        leave == IF is_main(s) THEN "main_stop" ELSE "finish"
    IN  /\ s.phase = "search_root"
        /\ threads' = [ threads EXCEPT ![i] =
              IF pool.stop \/ ~ (s.elapsed < max_time_ms) THEN [ s EXCEPT !.phase = leave ]
              ELSE IF s.root + 1 > Len(s.tree) THEN [ s EXCEPT !.phase = "panicked" ]
              ELSE IF ~ is_unsolved(node_immut(s.tree, s.root)) THEN [ s EXCEPT !.phase = leave ]
              ELSE [ s EXCEPT !.phase = "descend", !.elapsed = s.age, !.cur = s.root,
                              !.late_visits = 0 ] ]
        /\ UNCHANGED <<pool, caller, rest>>

\* One turn of the inner loop of Searcher::search_root, on an unvisited node
\* up to the return of visit.
Descend(i) ==
    LET s == threads[i]
    IN  /\ s.phase = "descend"
        /\ IF s.cur + 1 > Len(s.tree)
           THEN threads' = [ threads EXCEPT ![i].phase = "panicked" ]
           ELSE LET node == node_immut(s.tree, s.cur)
                IN  IF node.outcome # "None"
                    THEN threads' = [ threads EXCEPT
                            ![i].tree  = backpropagate(s.tree, s.cur, Outcome_value(node.outcome), TRUE),
                            ![i].phase = "search_root" ]
                    ELSE IF is_unvisited(node)
                    THEN \E val \in OracleValues :
                         \E visited \in { visit(s.tree, s.cur, val) } :
                            threads' = [ threads EXCEPT
                                    ![i].tree = visited.tree,
                                    ![i].value = visited.value,
                                    ![i].found_leaf = visited.any,
                                    ![i].phase = "backup",
                                    ![i].late_visits = IF pool.stop /\ @ < 2 THEN @ + 1 ELSE @ ]
                    ELSE \E id \in continuation(s.tree, s.cur) :
                            threads' = [ threads EXCEPT ![i].cur = id ]
        /\ UNCHANGED <<pool, caller, rest>>

\* The inner loop of Searcher::search_root after visit: backpropagate of the
\* value and found_leaf that visit returned, and the next turn of the loop.
Backup(i) ==
    LET s == threads[i]
    IN  /\ s.phase = "backup"
        /\ threads' = [ threads EXCEPT ![i] =
              IF s.cur + 1 > Len(s.tree) THEN [ s EXCEPT !.phase = "panicked" ]
              ELSE [ s EXCEPT !.tree = backpropagate(s.tree, s.cur, s.value, s.found_leaf),
                              !.value = 0, !.found_leaf = FALSE, !.phase = "descend" ] ]
        /\ UNCHANGED <<pool, caller, rest>>

\* Searcher::launch_main after search_root: the lock of work_cond and the
\* store to stop.
MainStop(i) ==
    /\ threads[i].phase = "main_stop"
    /\ pool' = [ pool EXCEPT !.work_cond = FALSE, !.stop = TRUE ]
    /\ threads' = [ threads EXCEPT ![i].phase = "main_wait", ![i].peer = 1 ]
    /\ UNCHANGED <<caller, rest>>

\* Searcher::launch_main: one turn of the wait for the searchers that are not
\* main to be finished, the last of which leaves the loop of wait_for.
MainWait(i) ==
    /\ threads[i].phase = "main_wait"
    /\ threads[i].peer < threads_len => ~ threads[threads[i].peer].search_status
    /\ threads' = IF threads[i].peer < threads_len
                  THEN [ threads EXCEPT ![i].peer = @ + 1 ]
                  ELSE [ threads EXCEPT ![i].phase = "main_reduce" ]
    /\ UNCHANGED <<pool, caller, rest>>

\* The fold of launch_main over the searchers of the pool.
RECURSIVE main_reduce(_, _, _, _)
main_reduce(ts, j, best_move, best_score) ==
    IF j = Cardinality(DOMAIN ts)
    THEN [ result |-> "Ok", threads |-> ts, move |-> best_move, score |-> best_score ]
    ELSE CHOOSE folded \in
           { IF r.result = "panic"
             THEN [ result |-> "panic", threads |-> ts, move |-> best_move, score |-> best_score ]
             ELSE IF EvalLess(best_score, r.score)
             THEN main_reduce([ ts EXCEPT ![j] = r.searcher ], j + 1, r.move, r.score)
             ELSE main_reduce([ ts EXCEPT ![j] = r.searcher ], j + 1, best_move, best_score)
             : r \in { best_av_pair(ts[j]) } } : TRUE

\* Searcher::launch_main: the reduction over the searchers.
MainReduce(i) ==
    /\ threads[i].phase = "main_reduce"
    /\ \E r \in { main_reduce(threads, 0, Tetromino_null, NegInfinity) } :
           threads' = IF r.result = "panic"
                      THEN [ r.threads EXCEPT ![i].phase = "panicked" ]
                      ELSE [ r.threads EXCEPT ![i].best_move = r.move,
                                              ![i].best_eval = r.score,
                                              ![i].phase = "finish" ]
    /\ UNCHANGED <<pool, caller, rest>>

\* The last line of Searcher::launch, and back to the loop of idle.
Finish(i) ==
    /\ threads[i].phase = "finish"
    /\ threads' = [ threads EXCEPT ![i].search_status = FALSE, ![i].phase = "wait" ]
    /\ UNCHANGED <<pool, caller, rest>>

\* gen-move: MCTS::search is called on a position.
Search(position) ==
    /\ caller.phase = "ready"
    /\ caller.searches < MaxSearches
    /\ caller' = [ caller EXCEPT !.phase = "wait_all", !.k = 0, !.position = position,
                                 !.searches = @ + 1, !.cancelled = FALSE,
                                 !.movemap = << >> ]
    /\ UNCHANGED <<pool, threads, rest>>

\* The phase after each wait_for.
after_wait(phase) ==
    CASE phase = "wait_all"    -> "store"
      [] phase = "wait_start"  -> "sleep"
      [] phase = "wait_finish" -> "reduce"

\* ThreadPool::wait_for: the wait on the status of one searcher, for Start
\* (true) in launch and for Finish (false) before the broadcast and after the
\* lock; the sleep of launch starts when the last searcher has started.
WaitFor ==
    /\ caller.phase \in {"wait_all", "wait_start", "wait_finish"}
    /\ threads[caller.k].search_status = (caller.phase = "wait_start")
    /\ caller' = IF caller.k + 1 < threads_len
                 THEN [ caller EXCEPT !.k = @ + 1 ]
                 ELSE [ caller EXCEPT !.k = 0, !.phase = after_wait(caller.phase),
                                      !.sleep_left = max_time_ms ]
    /\ UNCHANGED <<pool, threads, rest>>

\* MCTS::search: the store of false to stop.
Store ==
    /\ caller.phase = "store"
    /\ pool' = [ pool EXCEPT !.stop = FALSE ]
    /\ caller' = [ caller EXCEPT !.phase = "clear" ]
    /\ UNCHANGED <<threads, rest>>

\* MCTS::search: clear on one searcher.
Clear ==
    /\ caller.phase = "clear"
    /\ threads' = [ threads EXCEPT ![caller.k] = clear(@) ]
    /\ caller' = [ caller EXCEPT !.phase = "initialize" ]
    /\ UNCHANGED <<pool, rest>>

\* MCTS::search: initialize on one searcher; after the last, ThreadPool::launch.
Broadcast ==
    /\ caller.phase = "initialize"
    /\ threads' = [ threads EXCEPT ![caller.k] = Searcher_initialize(@, caller.position) ]
    /\ caller' = IF caller.k + 1 < threads_len
                 THEN [ caller EXCEPT !.k = @ + 1, !.phase = "clear" ]
                 ELSE [ caller EXCEPT !.k = 0, !.phase = "launch" ]
    /\ UNCHANGED <<pool, rest>>

\* ThreadPool::launch: set_stop_requirement(false).
Launch ==
    /\ caller.phase = "launch"
    /\ pool' = [ pool EXCEPT !.stop = FALSE ]
    /\ caller' = [ caller EXCEPT !.phase = "release" ]
    /\ UNCHANGED <<threads, rest>>

\* ThreadPool::launch: cond.set().
Release ==
    /\ caller.phase = "release"
    /\ pool' = [ pool EXCEPT !.cond = TRUE ]
    /\ caller' = [ caller EXCEPT !.phase = "wait_start" ]
    /\ UNCHANGED <<threads, rest>>

\* ThreadPool::launch: the end of the sleep and set_stop_requirement(true).
Timeout ==
    /\ caller.phase = "sleep"
    /\ caller.sleep_left = 0
    /\ pool' = [ pool EXCEPT !.stop = TRUE ]
    /\ caller' = [ caller EXCEPT !.phase = "lock" ]
    /\ UNCHANGED <<threads, rest>>

\* ThreadPool::launch: cond.lock().
Lock ==
    /\ caller.phase = "lock"
    /\ pool' = [ pool EXCEPT !.cond = FALSE ]
    /\ caller' = [ caller EXCEPT !.phase = "wait_finish", !.k = 0 ]
    /\ UNCHANGED <<threads, rest>>

\* ThreadPool::launch: the children of the root of one searcher are added to
\* the movemap.
Reduce ==
    /\ caller.phase = "reduce"
    /\ \E r \in { reduce_searcher(pool.state, caller.movemap, threads[caller.k]) } :
           caller' = IF r.result = "panic" THEN [ caller EXCEPT !.phase = "panicked" ]
                     ELSE IF caller.k + 1 < threads_len
                     THEN [ caller EXCEPT !.k = @ + 1, !.movemap = r.movemap ]
                     ELSE [ caller EXCEPT !.k = 0, !.movemap = r.movemap, !.phase = "first" ]
    /\ UNCHANGED <<pool, threads, rest>>

\* ThreadPool::launch: the sort and best_move; unwrap of the first of an
\* empty movevec panics.
First ==
    /\ caller.phase = "first"
    /\ \E keys \in { enumerate_moves(caller.position) \cup StrayKeys } :
       \E tops \in { first_sorted(pool.state, caller.movemap, keys) } :
           IF tops = {}
           THEN /\ caller' = [ caller EXCEPT !.phase = "panicked" ]
                /\ pool' = pool
           ELSE \E top \in tops :
                /\ pool' = [ pool EXCEPT !.best_move = top ]
                /\ caller' = [ caller EXCEPT !.phase = "ready" ]
    /\ UNCHANGED <<threads, rest>>

\* cancel-search while a search runs: MCTS::stop_early.
Cancel ==
    /\ caller.phase \in {"wait_start", "sleep"}
    /\ ~ caller.cancelled
    /\ pool' = [ pool EXCEPT !.stop = TRUE ]
    /\ caller' = [ caller EXCEPT !.cancelled = TRUE ]
    /\ UNCHANGED <<threads, rest>>

\* Time passes: a tick of the clock the sleep of launch and the Instants of
\* search_root are read from.
Tick ==
    /\ \/ caller.phase = "sleep" /\ caller.sleep_left > 0
       \/ \E i \in DOMAIN threads : threads[i].phase \in {"search_root", "descend", "backup"}
                               /\ threads[i].age < max_time_ms
    /\ caller' = IF caller.phase = "sleep" /\ caller.sleep_left > 0
                 THEN [ caller EXCEPT !.sleep_left = @ - 1 ] ELSE caller
    /\ threads' = [ i \in DOMAIN threads |->
                     IF threads[i].phase \in {"search_root", "descend", "backup"}
                        /\ threads[i].age < max_time_ms
                     THEN [ threads[i] EXCEPT !.age = @ + 1 ] ELSE threads[i] ]
    /\ UNCHANGED <<pool, rest>>

NextPool ==
    \/ \E i \in Searchers :
         \/ Spawned(i) \/ Idle(i) \/ Wake(i) \/ SearcherLaunch(i) \/ SearchRoot(i)
         \/ Descend(i) \/ Backup(i) \/ MainStop(i) \/ MainWait(i) \/ MainReduce(i)
         \/ Finish(i)
    \/ \E position \in SearchBoards : Search(position)
    \/ WaitFor \/ Store \/ Clear \/ Broadcast \/ Launch \/ Release \/ Timeout
    \/ Lock \/ Reduce \/ First \/ Cancel
    \/ Tick

\* The pool of MCTS::new under searches and cancels.
SpecPool == InitPool /\ [][NextPool]_vars

\* The steps a searcher thread takes when it is scheduled, and its waits on
\* the latch and on the status of another searcher.
SearcherRuns(i) ==
    \/ Spawned(i) \/ Idle(i) \/ SearcherLaunch(i) \/ SearchRoot(i) \/ Descend(i)
    \/ Backup(i) \/ MainStop(i) \/ MainReduce(i) \/ Finish(i)

SearcherWaits(i) == Wake(i) \/ MainWait(i)

\* The steps of the calling thread inside MCTS::search and ThreadPool::launch;
\* gen-move and cancel-search are the user's and may never come.
CallerRuns ==
    Store \/ Clear \/ Broadcast \/ Launch \/ Release \/ Timeout \/ Lock \/ Reduce \/ First

\* The first gen-move of a session.
FirstSearch(position) == caller.searches = 0 /\ Search(position)

NextFirst ==
    \/ \E i \in Searchers :
         \/ Spawned(i) \/ Idle(i) \/ Wake(i) \/ SearcherLaunch(i) \/ SearchRoot(i)
         \/ Descend(i) \/ Backup(i) \/ MainStop(i) \/ MainWait(i) \/ MainReduce(i)
         \/ Finish(i)
    \/ \E position \in SearchBoards : FirstSearch(position)
    \/ WaitFor \/ Store \/ Clear \/ Broadcast \/ Launch \/ Release \/ Timeout
    \/ Lock \/ Reduce \/ First \/ Cancel
    \/ Tick

\* ENABLED <<SearcherRuns(i)>>_vars and ENABLED <<CallerRuns>>_vars, from
\* the guards of the actions: each of these steps changes the phase or the
\* cursor.
searcher_can_run(i) ==
    threads[i].phase \in {"spawned", "idle", "launch", "search_root", "descend",
                            "backup", "main_stop", "main_reduce", "finish"}

caller_can_run ==
    \/ caller.phase \in {"store", "clear", "initialize", "launch", "release",
                           "lock", "reduce", "first"}
    \/ caller.phase = "sleep" /\ caller.sleep_left = 0

\* The pool of MCTS::new under one search.  Every thread is scheduled again
\* and again and the clock advances; a thread that waits on a condition
\* variable is notified at every set and takes the mutex at one of them when
\* the condition holds again and again.  The two disjunctions are WF_vars of
\* SearcherRuns(i) and of CallerRuns, written with the guards.
SpecPoolFair ==
    /\ InitPool /\ [][NextFirst]_vars
    /\ \A i \in Searchers :
          []<>(~ searcher_can_run(i)) \/ []<><<SearcherRuns(i)>>_vars
    /\ \A i \in Searchers : SF_vars(SearcherWaits(i))
    /\ ([]<>(~ caller_can_run) \/ []<><<CallerRuns>>_vars)
    /\ SF_vars(WaitFor)
    /\ WF_vars(Tick)

(***************************************************************************)
(* ThreadPool::kill, called on the pool of MCTS::new before a search or    *)
(* after one.  A searcher whose thread has returned from idle is "exited", *)
(* one whose storage has been deallocated is "freed".                      *)
(***************************************************************************)

\* ThreadPool::kill: the store of true to stop.
Kill ==
    /\ caller.phase = "ready"
    /\ pool' = [ pool EXCEPT !.stop = TRUE ]
    /\ caller' = [ caller EXCEPT !.phase = "kill_wait", !.k = 0 ]
    /\ UNCHANGED <<threads, rest>>

\* ThreadPool::kill: wait_for(Finish), the wait on the status of one searcher.
KillWait ==
    /\ caller.phase = "kill_wait"
    /\ ~ threads[caller.k].search_status
    /\ caller' = IF caller.k + 1 < threads_len
                 THEN [ caller EXCEPT !.k = @ + 1 ]
                 ELSE [ caller EXCEPT !.k = 0, !.phase = "kill_store" ]
    /\ UNCHANGED <<pool, threads, rest>>

\* ThreadPool::kill: the store of true to the kill flag of one searcher.
KillStore ==
    /\ caller.phase = "kill_store"
    /\ threads' = [ threads EXCEPT ![caller.k].kill = TRUE ]
    /\ caller' = IF caller.k + 1 < threads_len
                 THEN [ caller EXCEPT !.k = @ + 1 ]
                 ELSE [ caller EXCEPT !.k = 0, !.phase = "kill_set" ]
    /\ UNCHANGED <<pool, rest>>

\* ThreadPool::kill: cond_variable.set() of one searcher, the latch of the pool.
KillSet ==
    /\ caller.phase = "kill_set"
    /\ pool' = [ pool EXCEPT !.cond = TRUE ]
    /\ caller' = IF caller.k + 1 < threads_len
                 THEN [ caller EXCEPT !.k = @ + 1 ]
                 ELSE [ caller EXCEPT !.k = threads_len - 1, !.phase = "kill_join" ]
    /\ UNCHANGED <<threads, rest>>

\* ThreadPool::kill: the join of the handle popped, which returns when the
\* thread has returned from idle or has panicked.
KillJoin ==
    /\ caller.phase = "kill_join"
    /\ threads[caller.k].phase \in {"exited", "panicked"}
    /\ caller' = IF caller.k > 0
                 THEN [ caller EXCEPT !.k = @ - 1 ]
                 ELSE [ caller EXCEPT !.k = threads_len - 1, !.phase = "kill_dealloc" ]
    /\ UNCHANGED <<pool, threads, rest>>

\* ThreadPool::kill: the dealloc of the searcher popped.
KillDealloc ==
    /\ caller.phase = "kill_dealloc"
    /\ threads' = [ threads EXCEPT ![caller.k].phase = "freed" ]
    /\ caller' = IF caller.k > 0
                 THEN [ caller EXCEPT !.k = @ - 1 ]
                 ELSE [ caller EXCEPT !.k = 0, !.phase = "killed" ]
    /\ UNCHANGED <<pool, rest>>

CallerKills == KillStore \/ KillSet \/ KillDealloc

NextKill ==
    \/ NextFirst
    \/ Kill \/ KillWait \/ KillStore \/ KillSet \/ KillJoin \/ KillDealloc

\* The pool of MCTS::new under one search at most and one kill, every thread
\* scheduled again and again as in SpecPoolFair.
SpecKill ==
    /\ InitPool /\ [][NextKill]_vars
    /\ \A i \in Searchers :
          []<>(~ searcher_can_run(i)) \/ []<><<SearcherRuns(i)>>_vars
    /\ \A i \in Searchers : SF_vars(SearcherWaits(i))
    /\ ([]<>(~ caller_can_run) \/ []<><<CallerRuns>>_vars)
    /\ SF_vars(WaitFor)
    /\ WF_vars(Tick)
    /\ WF_vars(CallerKills)
    /\ SF_vars(KillWait)
    /\ SF_vars(KillJoin)

(***************************************************************************)
(* One search on its tree: the engine from the moment ThreadPool::launch    *)
(* has seen every searcher started and goes to sleep, on root positions     *)
(* that are solved within a few iterations.                                 *)
(***************************************************************************)

\* A position with one legal move, the I piece on the row of the left slot,
\* after which the game is over: scoring tiles with the symbol of X on the
\* points xs and of O on the points os, and a pool of one last I piece.
RootOne(xs, os, to_move) ==
    Board_new([ i \in 0 .. 9 |-> [ j \in 0 .. 9 |->
                  IF <<i, j>> \in xs THEN "X" ELSE IF <<i, j>> \in os THEN "O" ELSE "None" ] ],
              SetupAllBut(SlotLeft),
              [ i \in 0 .. 3 |-> IF i = 1 THEN 1 ELSE 0 ],
              to_move)

\* A position of three legal moves: the move in the bottom row ends the game,
\* each move in the row above leaves the other as the last move of the game.
\* The tile (0, 9) stays uncovered.
SlotBottom == { <<2, 9>>, <<3, 9>>, <<4, 9>>, <<5, 9>> }

SlotsAbove == { <<0, 8>>, <<1, 8>>, <<2, 8>>, <<3, 8>>, <<5, 8>>, <<6, 8>>, <<7, 8>>, <<8, 8>> }

SlotGaps == { <<0, 9>>, <<1, 7>>, <<3, 7>>, <<5, 7>>, <<6, 7>>, <<8, 7>>, <<7, 9>>, <<8, 9>> }

RootThree ==
    [ Board_new(NoScore, SetupAllBut(SlotBottom \cup SlotsAbove \cup SlotGaps),
                [ i \in 0 .. 3 |-> IF i = 1 THEN 2 ELSE 0 ], "X")
        EXCEPT !.score_tiles[0][9] = "X" ]

\* The positions of the searches on one tree: the root of two moves, without
\* a symbol and with a symbol of O that no move covers; a symbol of X stays
\* uncovered and X moves, and wins by one; X moves and wins by one because
\* the move covers the two symbols of O; no symbol, the game ends level; a
\* symbol of X stays uncovered and O moves, and loses by one.
TreeBoards ==
    { RootTwo,
      [ RootTwo EXCEPT !.score_tiles[1][8] = "O" ],
      RootOne({ <<1, 8>> }, {}, "X"),
      RootOne({ <<1, 8>> }, { <<0, 9>>, <<2, 9>> }, "X"),
      RootOne({}, {}, "X"),
      RootOne({ <<1, 8>> }, {}, "O"),
      RootThree }

\* The state of the engine when the wait_for(Start) of ThreadPool::launch
\* returns in the first search, with no searcher past the first line of
\* search_root.
InitTree ==
    /\ board = Board_blank
    /\ call = [ op |-> "new", result |-> "Ok", value |-> "unit" ]
    /\ MOVEMAP_FWD = << >>
    /\ MOVEMAP_REV = << >>
    /\ game = Game_new
    /\ pool = [ ThreadPool_new EXCEPT !.stop = FALSE, !.cond = TRUE, !.work_cond = TRUE ]
    /\ \E position \in TreeBoards :
         /\ threads = [ i \in Searchers |->
                          [ Searcher_initialize(Searcher_new(i), position) EXCEPT
                              !.phase = "search_root" ] ]
         /\ caller = [ Caller_new EXCEPT !.phase = "sleep", !.position = position,
                                         !.sleep_left = max_time_ms, !.searches = 1 ]

NextTree ==
    \/ \E i \in Searchers :
         \/ Wake(i) \/ SearcherLaunch(i) \/ SearchRoot(i) \/ Descend(i) \/ Backup(i)
         \/ MainStop(i) \/ MainWait(i) \/ MainReduce(i) \/ Finish(i)
    \/ WaitFor \/ Timeout \/ Lock \/ Reduce \/ First
    \/ Tick

\* One search of the pool, from the sleep of ThreadPool::launch to its return.
SpecTree == InitTree /\ [][NextTree]_vars

(***************************************************************************)
(* One search by a pool of two searchers, the main searcher and one that   *)
(* is not main, from the moment the wait_for(Start) of ThreadPool::launch  *)
(* returned, on a position of one legal move.                              *)
(***************************************************************************)

\* The two searchers of the pool.
PairOfSearchers == { 0, 1 }

\* The positions the pair searches: one move that ends the game, with a
\* symbol of X that stays uncovered and without a symbol.
PairBoards == { RootOne({ <<1, 8>> }, {}, "X"), RootOne({}, {}, "X") }

InitPair ==
    /\ board = Board_blank
    /\ call = [ op |-> "new", result |-> "Ok", value |-> "unit" ]
    /\ MOVEMAP_FWD = << >>
    /\ MOVEMAP_REV = << >>
    /\ game = Game_new
    /\ pool = [ ThreadPool_new EXCEPT !.stop = FALSE, !.cond = TRUE, !.work_cond = TRUE ]
    /\ \E position \in PairBoards :
         /\ threads = [ i \in PairOfSearchers |->
                          [ Searcher_initialize(Searcher_new(i), position) EXCEPT
                              !.phase = "search_root" ] ]
         /\ caller = [ Caller_new EXCEPT !.phase = "sleep", !.position = position,
                                         !.sleep_left = max_time_ms, !.searches = 1 ]

NextPair ==
    \/ \E i \in PairOfSearchers :
         \/ Wake(i) \/ SearcherLaunch(i) \/ SearchRoot(i) \/ Descend(i) \/ Backup(i)
         \/ MainStop(i) \/ MainWait(i) \/ MainReduce(i) \/ Finish(i)
    \/ WaitFor \/ Timeout \/ Lock \/ Reduce \/ First
    \/ Tick

SpecPair == InitPair /\ [][NextPair]_vars

(***************************************************************************)
(* transform.rs as a library: the sum of two transforms, a transform on a   *)
(* point, canonicalize and enumerate, called on every input.  The call      *)
(* keeps its arguments beside what it returned.                             *)
(***************************************************************************)

\* The greatest coordinate, on either side of the origin, of the points handed
\* to apply_to_point.
MaxCoord == 2

InputPoints == (- MaxCoord .. MaxCoord) \X (- MaxCoord .. MaxCoord)

\* &t1 + &t2
TransformSum(t1, t2) ==
    /\ call' = [ op |-> "add", result |-> "Ok",
                 value |-> [ self |-> t1, rhs |-> t2, sum |-> TransformAdd(t1, t2) ] ]
    /\ UNCHANGED <<board, MOVEMAP_FWD, MOVEMAP_REV, game, pool, threads, caller>>

\* t.apply_to_point(p)
ApplyToPoint(t, p) ==
    /\ call' = [ op |-> "apply_to_point", result |-> "Ok",
                 value |-> [ self |-> t, target |-> p, point |-> apply_to_point(t, p) ] ]
    /\ UNCHANGED <<board, MOVEMAP_FWD, MOVEMAP_REV, game, pool, threads, caller>>

\* t.canonicalize(colour)
Canonicalize(t, colour) ==
    /\ call' = [ op |-> "canonicalize", result |-> "Ok",
                 value |-> [ self |-> t, colour |-> colour,
                             canonical |-> canonicalize(t, colour) ] ]
    /\ UNCHANGED <<board, MOVEMAP_FWD, MOVEMAP_REV, game, pool, threads, caller>>

\* Transform::enumerate(colour)
Enumerate(colour) ==
    /\ call' = [ op |-> "enumerate", result |-> "Ok",
                 value |-> [ colour |-> colour, transforms |-> enumerate(colour) ] ]
    /\ UNCHANGED <<board, MOVEMAP_FWD, MOVEMAP_REV, game, pool, threads, caller>>

NextTransform ==
    \/ \E t1 \in Transforms, t2 \in Transforms : TransformSum(t1, t2)
    \/ \E t \in Transforms, p \in InputPoints : ApplyToPoint(t, p)
    \/ \E t \in Transforms, colour \in Colours : Canonicalize(t, colour)
    \/ \E colour \in Colours : Enumerate(colour)

SpecTransform == InitBlank /\ [][NextTransform]_vars

(***************************************************************************)
(* tetromino.rs as a library: Tetromino::new, enumerate_transforms and     *)
(* Transform::apply_to_tetromino, called on the tetrominoes made so far.   *)
(* The call keeps its arguments beside the tetrominoes it returned.        *)
(***************************************************************************)

ShapeAnchors == { <<0, 0>>, <<4, 7>> }

\* Tetromino::new(colour, anchor, t)
TetrominoNew(colour, anchor, t) ==
    /\ call' = [ op |-> "Tetromino::new", result |-> "Ok",
                 value |-> [ target |-> get_reference_tetromino(colour, anchor), by |-> t,
                             made |-> << Tetromino_new(colour, anchor, t) >> ] ]
    /\ UNCHANGED <<board, MOVEMAP_FWD, MOVEMAP_REV, game, pool, threads, caller>>

\* tet.enumerate_transforms() on a tetromino the last call returned.
EnumerateTransforms ==
    /\ call.op # "new"
    /\ \E tet \in Range(call.value.made) :
         call' = [ op |-> "enumerate_transforms", result |-> "Ok",
                   value |-> [ target |-> tet, by |-> "Identity",
                               made |-> enumerate_transforms(tet) ] ]
    /\ UNCHANGED <<board, MOVEMAP_FWD, MOVEMAP_REV, game, pool, threads, caller>>

\* t.apply_to_tetromino(tet) on a tetromino the last call returned.
ApplyToTetromino(t) ==
    /\ call.op # "new"
    /\ \E tet \in Range(call.value.made) :
         call' = [ op |-> "apply_to_tetromino", result |-> "Ok",
                   value |-> [ target |-> tet, by |-> t,
                               made |-> << apply_to_tetromino(t, tet) >> ] ]
    /\ UNCHANGED <<board, MOVEMAP_FWD, MOVEMAP_REV, game, pool, threads, caller>>

NextShape ==
    \/ \E colour \in Colours, anchor \in ShapeAnchors, t \in Transforms :
           TetrominoNew(colour, anchor, t)
    \/ EnumerateTransforms
    \/ \E t \in Transforms : ApplyToTetromino(t)

SpecShape == InitBlank /\ [][NextShape]_vars

(***************************************************************************)
(* Claims                                                                  *)
(***************************************************************************)

Covered(b, p) == b.piece_tiles[p[1]][p[2]] # "None"

CoveredNeighbours(b, p) == { q \in neighbours_on_board(p) : Covered(b, q) }

NoTileCovered(b) == \A p \in Points : ~ Covered(b, p)

LastCallOk(op) == call.op = op /\ call.result = "Ok"

\* C1: after any successful place and undo calls, from any board of
\* Board::blank or Board::new, attach_points is the map that
\* calculate_attach_points_from_scratch computes for the same piece_tiles.
C1_AttachPointsAreScratch ==
    board.attach_points = calculate_attach_points_from_scratch(board.piece_tiles)

\* A point is a key iff it is uncovered, has a covered neighbour and a
\* non-empty set of colours left, and the key's value is that set.
AttachIndexCharacterised(b) ==
    \A p \in Points :
        LET left == Colours \ { b.piece_tiles[q[1]][q[2]] : q \in CoveredNeighbours(b, p) }
        IN  /\ p \in DOMAIN b.attach_points
                <=> (~ Covered(b, p) /\ CoveredNeighbours(b, p) # {} /\ left # {})
            /\ p \in DOMAIN b.attach_points => b.attach_points[p] = left

AttachIndexOrUniversal(b) ==
    IF NoTileCovered(b)
    THEN DOMAIN b.attach_points = Points /\ \A p \in Points : b.attach_points[p] = Colours
    ELSE AttachIndexCharacterised(b)

AllTetrominoes ==
    { Tetromino_new(c, a, t) : c \in Colours, a \in Points, t \in Transforms }

\* C3: enumerate_moves returns exactly the tetrominoes (any colour, on-board
\* anchor, canonical transform) that validate_tetromino accepts, and every
\* accepted tetromino covers an attach point that holds its colour and has
\* its anchor among the point's potential anchors.
C3_EnumerateMovesSoundAndComplete ==
    call.result = "Ok" =>
        LET moves == enumerate_moves(board)
            legal == { t \in AllTetrominoes : validate_tetromino(board, t) = "Ok" }
        IN  /\ \A t \in moves : validate_tetromino(board, t) = "Ok"
            /\ \A t \in legal : t \in moves
            /\ \A t \in legal :
                 \E p \in Range(points_real(t)) :
                    /\ p \in DOMAIN board.attach_points
                    /\ t.colour \in board.attach_points[p]
                    /\ t.anchor \in get_potential_anchors(p)

\* C3's case: a board with two pieces on which some but not all colours can
\* still be played at a point.
C3_Witness ==
    /\ LastCallOk("place")
    /\ Sum(board.pieces_remaining) = 18
    /\ enumerate_moves(board) # {}

\* C4: on every board, place_tetromino(t) of a legal t followed by
\* undo_tetromino(t) gives back the board, equal in every field.
C4_PlaceThenUndoRestoresBoard ==
    \A t \in InputTetrominoes :
        validate_tetromino(board, t) = "Ok" =>
            LET placed == place_tetromino(board, t)
                undone == undo_tetromino(placed.board, t)
            IN  placed.result = "Ok" /\ undone.result = "Ok" /\ undone.board = board

\* C5: to_move is always X or O; every successful place_tetromino and every
\* successful undo_tetromino hands the move to the other player; and a place
\* followed by its undo leaves to_move as it was.
C5_ToMoveFlips ==
    /\ [](/\ board.to_move \in Players
          /\ \A t \in InputTetrominoes :
               validate_tetromino(board, t) = "Ok" =>
                 undo_tetromino(place_tetromino(board, t).board, t).board.to_move
                    = board.to_move)
    /\ [][ (call'.op \in {"place", "undo"} /\ call'.result = "Ok")
             => (board'.to_move # board.to_move /\ board'.to_move \in Players) ]_vars

\* C5's case: an undo has succeeded after a place, and O is to move.
C5_Witness ==
    /\ LastCallOk("undo")
    /\ Sum(board.pieces_remaining) = 19
    /\ board.to_move = "O"

\* The tiles after the points of t are covered.
CoveredAfter(b, t, p) == Covered(b, p) \/ p \in Range(points_real(t))

\* Some 2x2 block of the board is covered.
HasSquare(b) ==
    \E i \in 0 .. 8, j \in 0 .. 8 :
        Covered(b, <<i, j>>) /\ Covered(b, <<i + 1, j>>)
            /\ Covered(b, <<i, j + 1>>) /\ Covered(b, <<i + 1, j + 1>>)

\* Covering the points of t completes a 2x2 block through one of them.
CompletesSquare(b, t) ==
    \E p \in Range(points_real(t)) : \E d \in {0, 1} \X {0, 1} :
        LET c == PointSub(p, d)
        IN  \A e \in {0, 1} \X {0, 1} :
                in_bounds(PointAdd(c, e)) /\ CoveredAfter(b, t, PointAdd(c, e))

OnBoardAndFree(b, t) ==
    \A p \in Range(points_real(t)) : in_bounds(p) /\ ~ Covered(b, p)

\* The tetrominoes that can touch a piece placed at an input anchor: every
\* colour and canonical transform, anchored within four tiles of AnchorOrder.
ProbeTetrominoes ==
    { t \in AllTetrominoes :
        t.anchor[1] <= 7 /\ t.anchor[2] >= 2 }

\* C6: no board reached from the blank board has a covered 2x2 block, and
\* every placement on free tiles that would complete one is found by the 6x6
\* window of tetromino_attach_forms_o and is rejected.
C6_NoSquare ==
    /\ ~ HasSquare(board)
    /\ call.result = "Ok" => \A t \in ProbeTetrominoes :
         (OnBoardAndFree(board, t) /\ CompletesSquare(board, t)) =>
            /\ tetromino_attach_forms_o(board, points_real(t))
            /\ validate_tetromino(board, t) # "Ok"

\* C6's case: a placement at the board's edge was rejected as forming an O.
C6_Witness ==
    /\ call.op = "place" /\ call.result = "forms-O"
    /\ \E t \in InputTetrominoes :
         /\ t.colour = "I"
         /\ validate_tetromino(board, t) = "forms-O"

\* C7: on a board reached from the blank board no placement with a cell beside
\* a tile of its own colour is accepted (it is rejected as same-colour-adjacent
\* once the earlier checks pass), so two adjacent tiles of one colour belong
\* to one tetromino: every maximal group of adjacent same-coloured tiles has
\* four tiles.
SameColourGroup(b, p) ==
    LET c  == b.piece_tiles[p[1]][p[2]]
        n1 == {p} \cup { q \in neighbours_on_board(p) : b.piece_tiles[q[1]][q[2]] = c }
        n2 == n1 \cup UNION { { r \in neighbours_on_board(q) : b.piece_tiles[r[1]][r[2]] = c } : q \in n1 }
        n3 == n2 \cup UNION { { r \in neighbours_on_board(q) : b.piece_tiles[r[1]][r[2]] = c } : q \in n2 }
        n4 == n3 \cup UNION { { r \in neighbours_on_board(q) : b.piece_tiles[r[1]][r[2]] = c } : q \in n3 }
    IN  n4

TouchesOwnColour(b, t) ==
    \E p \in Range(points_real(t)) : \E n \in neighbours_on_board(p) :
        b.piece_tiles[n[1]][n[2]] = t.colour

C7_SameColourNeverAdjacent ==
    /\ \A p \in Points : Covered(board, p) => Cardinality(SameColourGroup(board, p)) = 4
    /\ call.result = "Ok" => \A t \in ProbeTetrominoes :
         (OnBoardAndFree(board, t) /\ TouchesOwnColour(board, t)) =>
            validate_tetromino(board, t)
                \in {"no-such-piece", "no-attach-point", "same-colour-adjacent"}

\* C7's case: a placement beside a piece of its own colour was rejected.
C7_Witness ==
    /\ call.op = "place" /\ call.result = "same-colour-adjacent"
    /\ ~ NoTileCovered(board)

\* C8: every count of pieces_remaining stays in 0 .. 5; a place at 0 is
\* rejected as no-such-piece and an undo at 5 is rejected, whatever else holds.
C8_RemainingInRange ==
    /\ \A i \in 0 .. 3 : board.pieces_remaining[i] \in 0 .. 5
    /\ \A t \in InputTetrominoes :
         /\ board.pieces_remaining[as_index(t.colour)] = 0
               => place_tetromino(board, t) = [ result |-> "no-such-piece", board |-> board ]
         /\ board.pieces_remaining[as_index(t.colour)] = 5
               => undo_tetromino(board, t) = [ result |-> "no-remaining-undo", board |-> board ]

\* C8's case: the last piece of a colour has been placed and a further one
\* of that colour was refused.
C8_Witness ==
    /\ call.op = "place" /\ call.result = "no-such-piece"
    /\ \E i \in 0 .. 3 : board.pieces_remaining[i] = 0

\* The blank-board placements the ID table holds: every entry but the null piece.
TableMoves == { MOVEMAP_REV[n] : n \in DOMAIN MOVEMAP_REV \ {0} }

Orientations == [ c \in Colours |-> CASE c = "L" -> 8 [] c = "I" -> 2 [] c = "T" -> 4 [] c = "S" -> 4 ]

\* C9: on the blank board enumerate_moves returns exactly 1292 tetrominoes,
\* every in-bounds placement of every canonical orientation (L 8, I 2, T 4,
\* S 4), so that the table Tetromino::initialize builds from them plus the
\* null piece has exactly TETROMINO_RANGE entries.
C9_BlankBoardMovesFillTheRange ==
    MOVEMAP_FWD # << >> =>
        /\ Cardinality(TableMoves) = 1292
        /\ TableMoves = { t \in AllTetrominoes : \A p \in Range(points_real(t)) : in_bounds(p) }
        /\ \A c \in Colours :
             Cardinality({ t.transform : t \in { u \in TableMoves : u.colour = c } })
                = Orientations[c]
        /\ range(MOVEMAP_FWD) = TETROMINO_RANGE
        /\ Cardinality(DOMAIN MOVEMAP_REV) = TETROMINO_RANGE

\* C9's case: the table is built and from has returned its last entry.
C9_Witness ==
    /\ call.op = "from" /\ call.result = "Ok"
    /\ call.value = MOVEMAP_REV[TETROMINO_RANGE - 1]
    /\ call.value.colour = "S"

\* C10: after Tetromino::initialize the table is a bijection between the
\* enumerated blank-board placements plus the null piece and
\* 0 .. TETROMINO_RANGE - 1, 0 being the null piece's ID only:
\* from(into(t)) = t for every t of the table, into(from(n)) = n for every
\* n of the range.
C10_MovemapIsBijection ==
    MOVEMAP_FWD # << >> =>
        /\ DOMAIN MOVEMAP_REV = 0 .. TETROMINO_RANGE - 1
        /\ \A t \in DOMAIN MOVEMAP_FWD :
             LET n == into(MOVEMAP_FWD, t)
             IN  /\ n.result = "Ok"
                 /\ n.value \in 0 .. TETROMINO_RANGE - 1
                 /\ from(MOVEMAP_REV, n.value) = [ result |-> "Ok", value |-> t ]
                 /\ n.value = 0 <=> t.colour = "None"
        /\ \A n \in 0 .. TETROMINO_RANGE - 1 :
             LET t == from(MOVEMAP_REV, n)
             IN  /\ t.result = "Ok"
                 /\ into(MOVEMAP_FWD, t.value) = [ result |-> "Ok", value |-> n ]
        /\ (call.op = "into" /\ call.result = "Ok")
              => from(MOVEMAP_REV, call.value).value \in InputTetrominoes
        /\ (call.op = "from" /\ call.result = "Ok")
              => into(MOVEMAP_FWD, call.value).value \in InputIds

\* C10's case: into has returned the ID of an enumerated placement.
C10_Witness ==
    /\ call.op = "into" /\ call.result = "Ok"
    /\ call.value > 0
    /\ MOVEMAP_REV[call.value].colour # "None"

\* The six checks of a placement, each stated on the tiles, the pool and the
\* attach index alone; a check that reads tiles counts a point off the board
\* as passing (an earlier check has failed by then).
CheckNames ==
    << "no-such-piece", "out-of-bounds", "overlap", "no-attach-point",
       "same-colour-adjacent", "forms-O" >>

CheckPasses(b, t) ==
    LET pts == Range(points_real(t))
    IN  << b.pieces_remaining[as_index(t.colour)] >= 1,
           \A p \in pts : p[1] \in 0 .. 9 /\ p[2] \in 0 .. 9,
           \A p \in pts : in_bounds(p) => ~ Covered(b, p),
           \E p \in pts : p \in DOMAIN b.attach_points,
           \A p \in pts : \A n \in neighbours_on_board(p) :
                in_bounds(p) => b.piece_tiles[n[1]][n[2]] # t.colour,
           ~ CompletesSquare(b, t) >>

\* C11: validate_tetromino returns Ok iff all six checks pass, and otherwise
\* the violation of the first check that fails, in the order piece available,
\* on board, no overlap, attach point, no same-colour neighbour, no O.
C11_ValidateReportsFirstFailingCheck ==
    call.result = "Ok" =>
        \A t \in InputTetrominoes :
            LET passes  == CheckPasses(board, t)
                failing == { i \in 1 .. 6 : ~ passes[i] }
            IN  /\ validate_tetromino(board, t) = "Ok" <=> failing = {}
                /\ failing # {} => validate_tetromino(board, t) = CheckNames[Min(failing)]

\* C11's case: a piece is on the board and some input tetromino fails both the
\* same-colour check and the O check.
C11_Witness ==
    /\ LastCallOk("place")
    /\ \E t \in InputTetrominoes :
         LET passes == CheckPasses(board, t)
         IN  /\ passes[1] /\ passes[2] /\ passes[3] /\ passes[4]
             /\ ~ passes[5] /\ ~ passes[6]
             /\ validate_tetromino(board, t) = "same-colour-adjacent"

\* The score counted on the tiles: free X tiles less free O tiles.
FreeScore(b) ==
    Cardinality({ p \in Points : ~ Covered(b, p) /\ b.score_tiles[p[1]][p[2]] = "X" })
        - Cardinality({ p \in Points : ~ Covered(b, p) /\ b.score_tiles[p[1]][p[2]] = "O" })

SomeLegalMove(b) == \E t \in AllTetrominoes : validate_tetromino(b, t) = "Ok"

\* C12: Board::result is InProgress iff the board has a legal move; otherwise
\* it is an X win when the score is positive, an O win when it is negative and,
\* when it is zero, a win for the opponent of to_move; it is never a draw.
C12_ResultFollowsMovesAndScore ==
    call.op = "result" =>
        /\ call.result \in {"InProgress", "X", "O"}
        /\ call.result = "InProgress" <=> SomeLegalMove(board)
        /\ call.result # "InProgress" =>
             /\ call.value = FreeScore(board)
             /\ FreeScore(board) > 0 => call.result = "X"
             /\ FreeScore(board) < 0 => call.result = "O"
             /\ FreeScore(board) = 0 =>
                  call.result = (CHOOSE p \in Players : p # board.to_move)

\* C12's case: with no move left and the score level, result gave the game to
\* O, who made the last move.
C12_Witness ==
    /\ call.op = "result" /\ call.result = "O" /\ call.value = 0
    /\ board.to_move = "X"
    /\ ~ NoTileCovered(board)

\* The stack without its top entry, and with one more entry on top.
AllButTop(stack) == [ i \in 1 .. Len(stack) - 1 |-> stack[i] ]

WithOnTop(stack, t) == [ i \in 1 .. Len(stack) + 1 |-> IF i = Len(stack) + 1 THEN t ELSE stack[i] ]

C14_UndoMovesTopToFuture ==
    [][ call'.op = "game-undo" =>
          IF game.hist_stack # << >>
          THEN LET t == game.hist_stack[Len(game.hist_stack)]
               IN  /\ call'.result = "Ok"
                   /\ undo_tetromino(game.curr_board, t).result = "Ok"
                   /\ game'.curr_board = undo_tetromino(game.curr_board, t).board
                   /\ game'.hist_stack = AllButTop(game.hist_stack)
                   /\ game'.redo_stack = WithOnTop(game.redo_stack, t)
          ELSE /\ call'.result = "history-empty"
               /\ game'.curr_board = game.curr_board
               /\ game'.hist_stack = game.hist_stack
               /\ game'.redo_stack = game.redo_stack ]_vars

\* C14's case: two moves have been undone and a third undo found the history
\* empty.
C14_Witness ==
    /\ call.op = "game-undo" /\ call.result = "history-empty"
    /\ game.hist_stack = << >>
    /\ Len(game.redo_stack) = 2

\* The searcher whose tree the calling thread reads or writes in this state:
\* clear and initialize of MCTS::search, children_of_immut of ThreadPool::launch.
caller_accesses(i) ==
    caller.phase \in {"clear", "initialize", "reduce"} /\ caller.k = i

\* A searcher inside an iteration of search_root: its next step reads its
\* tree, expands it or backs a value up in it.
in_iteration(i) == threads[i].phase \in {"descend", "backup"}

\* C15: whenever the calling thread reads or writes the tree of searcher i
\* (the reduction of launch, or clear and initialize of the broadcast for the
\* next search), searcher i is not inside a search iteration.
C15_TreeAccessExclusive ==
    \A i \in Searchers : caller_accesses(i) => ~ in_iteration(i)

\* C16: once stop is true a searcher makes at most one further expansion
\* (one call of visit) in the descent it is in before it leaves search_root;
\* stated for the searches of a position that has a legal move.
C16_OneExpansionAfterStop ==
    \A i \in Searchers :
        threads[i].state = RootTwo => threads[i].late_visits <= 1

\* The calling thread is inside ThreadPool::launch.
in_launch ==
    caller.phase \in {"launch", "release", "wait_start", "sleep", "lock",
                      "wait_finish", "reduce", "first"}

\* C17: launch always eventually returns: it blocks forever neither at the
\* wait for started nor at the wait for finished.
C17_LaunchReturns == in_launch ~> (caller.phase = "ready")

\* Every searcher has set its status to finished.
all_finished == \A i \in Searchers : ~ threads[i].search_status

\* C18: when stop has been set by cancel-search during a search and every
\* searcher has finished, the search does not go on waiting for the rest of
\* max_time_ms.
C18_CancelEndsTheWait ==
    (caller.cancelled /\ all_finished) =>
        ~ (caller.phase = "sleep" /\ caller.sleep_left > 0)

\* A search has returned to the shell.
search_returned == caller.phase = "ready" /\ caller.searches > 0

\* C19: when the position handed to a search has a legal move, the move the
\* search returns, best_move of the pool, is a legal move of that position.
C19_ReturnedMoveIsLegal ==
    (search_returned /\ some_move(caller.position)) =>
        validate_tetromino(caller.position, pool.best_move) = "Ok"

\* A search is under way on a position that has no legal move.
searching_without_moves == caller.phase # "ready" /\ ~ some_move(caller.position)

\* C20: a search started on a position without a legal move returns, and the
\* main searcher then holds the null tetromino with the eval minus infinity.
C20_SearchWithoutMovesReturnsNull ==
    searching_without_moves ~>
        ( /\ search_returned
          /\ threads[0].best_move = Tetromino_null
          /\ threads[0].best_eval = NegInfinity )

\* The root of the tree of a searcher and the slice of its children.
root_of(i) == node_immut(threads[i].tree, threads[i].root)

root_children(i) == Range(children_of_immut(threads[i].tree, threads[i].root))

\* The searcher has completed an iteration of search_root: its root is expanded.
has_iterated(i) == Len(threads[i].tree) > 1

\* A position with exactly one legal move, after which the game is over and
\* Board::result names the player who made the move.
won_in_one(b) ==
    \E found \in { enumerate_moves(b) } :
        /\ Cardinality(found) = 1
        /\ \A m \in found : result(place_tetromino(b, m).board).outcome = b.to_move

\* C21: after a search of at least one iteration on a root with exactly one
\* legal move, which ends the game with a win for the root's side to move, the
\* root child of that move is marked Win and the move is the output of the
\* search: the best_move of ThreadPool::launch and the best_move of the main
\* searcher that MCTS::best_move reads.
C21_WonInOneIsMarkedAndPlayed ==
    (search_returned /\ has_iterated(0) /\ won_in_one(caller.position)) =>
        \A m \in enumerate_moves(caller.position) :
            /\ \A child \in root_children(0) : child.in_action = m => child.outcome = "Win"
            /\ pool.best_move = m
            /\ threads[0].best_move = m

\* The sum of n over the first k nodes of a slice of children.
RECURSIVE visits_of(_, _)
visits_of(children, k) ==
    IF k = 0 THEN 0 ELSE children[k].n + visits_of(children, k - 1)

\* Root.n less the sum of n over the children of the root.
root_surplus(i) ==
    LET children == children_of_immut(threads[i].tree, threads[i].root)
    IN  root_of(i).n - visits_of(children, Len(children))

\* The root of the searcher has been expanded and the backup of the expansion
\* is done; its count of visits is below the one the model stops at.
root_expanded(i) ==
    /\ has_iterated(i)
    /\ ~ (threads[i].phase = "backup" /\ threads[i].cur = threads[i].root)
    /\ root_of(i).n < MaxVisits

C23_SumActsAsSelfAfterRhs ==
    call.op = "add" =>
        \A p \in InputPoints :
            apply_to_point(call.value.sum, p)
                = apply_to_point(call.value.self, apply_to_point(call.value.rhs, p))

\* The set of the four points of the reference shape of a colour under a
\* transform, normalized.
shape_under(colour, t) ==
    LET points == get_reference_tetromino(colour, <<0, 0>>).points
    IN  Range(normalize([ i \in DOMAIN points |-> apply_to_point(t, points[i]) ]))

\* C24: canonicalize(colour, t) gives the reference shape of the colour the
\* same four points as t does, after normalize; canonicalize is idempotent;
\* the canonical transforms of L, I, T and S are 8, 2, 4 and 4, and they give
\* pairwise different sets of points.
C24_CanonicalTransformsNameTheShapes ==
    /\ call.op = "canonicalize" =>
         /\ shape_under(call.value.colour, call.value.canonical)
              = shape_under(call.value.colour, call.value.self)
         /\ canonicalize(call.value.canonical, call.value.colour) = call.value.canonical
    /\ call.op = "enumerate" =>
         /\ Len(call.value.transforms) = Orientations[call.value.colour]
         /\ \A i, j \in DOMAIN call.value.transforms :
                i # j => shape_under(call.value.colour, call.value.transforms[i])
                           # shape_under(call.value.colour, call.value.transforms[j])

\* A transform of S is folded to another one.
C24_Witness ==
    /\ call.op = "canonicalize"
    /\ call.value.colour = "S"
    /\ call.value.self = "ReflRot270"
    /\ call.value.canonical = "ReflRot90"

\* The step of searcher i is a backup: the backpropagate after visit, or the
\* backpropagate of the outcome of a solved node; and the flag has_solution
\* it is called with.
backs_up(i) ==
    \/ threads[i].phase = "backup" /\ threads'[i].phase = "descend"
    \/ /\ threads[i].phase = "descend"
       /\ threads[i].cur < Len(threads[i].tree)
       /\ ~ is_unsolved(node_immut(threads[i].tree, threads[i].cur))
       /\ threads'[i].phase = "search_root"

backup_has_solution(i) ==
    IF threads[i].phase = "backup" THEN threads[i].found_leaf ELSE TRUE

\* The ids of the children of a node.
child_ids(tree, id) ==
    { tree[id + 1].oldest_child + k - 1 : k \in 1 .. tree[id + 1].num_children }

\* The ids from a node up to the root.
RECURSIVE path_to_root(_, _)
path_to_root(tree, id) ==
    IF tree[id + 1].parent = << >> THEN { id }
    ELSE { id } \cup path_to_root(tree, tree[id + 1].parent[1])

\* The outcomes a backup leaves, by the rule of the claim: `outcomes` are the
\* labels by id as the backup has them when it comes to the node id.
RECURSIVE outcomes_after(_, _, _, _)
outcomes_after(tree, outcomes, id, has_sol) ==
    LET kids    == child_ids(tree, id)
        examine == has_sol /\ outcomes[id] = "None"
        label   == IF examine /\ \E k \in kids : outcomes[k] = "Loss" THEN "Win"
                   ELSE IF examine /\ kids # {} /\ \A k \in kids : outcomes[k] # "None"
                   THEN "Loss"
                   ELSE outcomes[id]
        marked  == [ outcomes EXCEPT ![id] = label ]
        still   == has_sol /\ (~ examine \/ label # "None")
    IN  IF tree[id + 1].parent = << >> THEN marked
        ELSE outcomes_after(tree, marked, tree[id + 1].parent[1], still)

\* C25: a backup marks each unsolved node on the path from the leaf to the
\* root, while has_solution is set, Win if a child is solved Loss, otherwise
\* Loss if it has children and all are solved, and otherwise clears
\* has_solution, after which it solves no ancestor; it changes no other label,
\* and it adds exactly one to n of every node on the path and of no other.
C25_BackupSolvesAndCounts ==
    [][ \A i \in Searchers :
          backs_up(i) =>
            LET tree   == threads[i].tree
                after  == threads'[i].tree
                ids    == 0 .. Len(tree) - 1
                path   == path_to_root(tree, threads[i].cur)
                labels == outcomes_after(tree, [ id \in ids |-> tree[id + 1].outcome ],
                                         threads[i].cur, backup_has_solution(i))
            IN  /\ Len(after) = Len(tree)
                /\ \A id \in ids :
                     /\ after[id + 1].outcome = labels[id]
                     /\ after[id + 1].n =
                          IF id \in path /\ tree[id + 1].n < MaxVisits
                          THEN tree[id + 1].n + 1 ELSE tree[id + 1].n ]_vars

\* A tree in which backups have marked a node Win for its Loss child and the
\* root Loss for its two Win children.
C25_Witness ==
    \E i \in Searchers :
        /\ has_iterated(i)
        /\ root_of(i).outcome = "Loss"
        /\ Cardinality(child_ids(threads[i].tree, threads[i].root)) = 2
        /\ \A k \in child_ids(threads[i].tree, threads[i].root) :
             /\ threads[i].tree[k + 1].outcome = "Win"
             /\ \E g \in child_ids(threads[i].tree, k) : threads[i].tree[g + 1].outcome = "Loss"

\* The ids of the nodes a step of searcher i has solved.
solved_by_step(i) ==
    { id \in 0 .. Len(threads[i].tree) - 1 :
        /\ threads[i].tree[id + 1].outcome = "None"
        /\ threads'[i].tree[id + 1].outcome # "None"
        /\ threads'[i].tree[id + 1].n < MaxVisits }

\* C26: right after the backup that solves a node its aggregate is v = n for
\* a Win and v = -n for a Loss, and the Q that selection computes for a child
\* solved Loss is exactly -1.
C26_SolvedAggregateAndQ ==
    [][ \A i \in Searchers :
          backs_up(i) =>
            \A id \in solved_by_step(i) :
                LET node == threads'[i].tree[id + 1]
                IN  /\ node.outcome = "Win"  => node.v = node.n * Unit
                    /\ node.outcome = "Loss" => node.v = - (node.n * Unit)
                    /\ (node.outcome = "Loss" /\ node.parent # << >>) =>
                           get_q(threads'[i].tree, node.parent[1], id) = << - Unit, 1 >> ]_vars

\* The step of searcher i is the visit of the node under its cursor.
expands(i) == threads[i].phase = "descend" /\ threads'[i].phase = "backup"

\* C27: the expansion of a node creates one child per legal move of its board,
\* in the order of enumeration, each with the board the move leaves; a child
\* whose board has no legal move is marked Win if the score of that board, in
\* the frame of the side to move at the parent, is positive, and Loss if not;
\* every other child has no outcome.
C27_ExpansionMakesTheChildren ==
    [][ \A i \in Searchers :
          expands(i) =>
            LET tree  == threads[i].tree
                after == threads'[i].tree
                node  == node_immut(tree, threads[i].cur)
                moves == btree_iter(enumerate_moves(node.state))
            IN  /\ Len(after) = Len(tree) + Len(moves)
                /\ child_ids(after, threads[i].cur) = Len(tree) .. Len(tree) + Len(moves) - 1
                /\ \A k \in 1 .. Len(moves) :
                     LET child == after[Len(tree) + k]
                     IN  /\ child.in_action = moves[k]
                         /\ child.parent = << threads[i].cur >>
                         /\ child.state = place_tetromino(node.state, moves[k]).board
                         /\ child.outcome =
                              IF some_move(child.state) THEN "None"
                              ELSE IF score(child.state) * value(node.state.to_move) > 0
                              THEN "Win" ELSE "Loss" ]_vars

\* The ids of the nodes of the tree of a searcher.
node_ids(i) == 0 .. Len(threads[i].tree) - 1

\* The label of a node that ends the game is that of Board::result on its
\* board, for the player to move there.
terminal_labels_right(i) ==
    \A id \in node_ids(i) :
        LET node == node_immut(threads[i].tree, id)
        IN  (node.outcome # "None" /\ node.num_children = 0) =>
                (node.outcome = "Win") = (result(node.state).outcome = node.state.to_move)

\* A solved node with children is Win exactly when one of its children is
\* solved Loss, and Loss only when all of them are solved Win.
internal_labels_right(i) ==
    \A id \in node_ids(i) :
        LET node == node_immut(threads[i].tree, id)
            kids == { node_immut(threads[i].tree, k) : k \in child_ids(threads[i].tree, id) }
        IN  (node.outcome # "None" /\ node.num_children > 0) =>
                /\ (node.outcome = "Win") = (\E kid \in kids : kid.outcome = "Loss")
                /\ node.outcome = "Loss" => \A kid \in kids : kid.outcome = "Win"

\* The moves of the children of the root that are solved Loss: the moves that
\* win for the side to move at the root.
winning_moves(i) == { child.in_action : child \in { c \in root_children(i) : c.outcome = "Loss" } }

\* C28: every outcome label is right in the frame of the player to move at
\* the node: a node that ends the game is labelled as Board::result decides
\* its board, a solved node with children is Win exactly when a child is
\* Loss; and the searcher's best_av_pair and the reduction of the pool read
\* the labels in that frame: with a child of the root solved Loss, the move
\* they return is the move of such a child.
C28_LabelsAreRightInOneFrame ==
    /\ \A i \in Searchers :
         ~ (threads[i].phase = "backup") =>
             terminal_labels_right(i) /\ internal_labels_right(i)
    /\ (search_returned /\ winning_moves(0) # {}) =>
         /\ threads[0].best_move \in winning_moves(0)
         /\ pool.best_move \in winning_moves(0)

\* C29: the outcome of a solved node is never changed or cleared in the rest
\* of the search, and no child is added to a node that has an outcome.
C29_OutcomesAreMonotone ==
    [][ \A i \in Searchers :
          \A id \in node_ids(i) :
              LET node == node_immut(threads[i].tree, id)
              IN  node.outcome # "None" =>
                      /\ id < Len(threads'[i].tree)
                      /\ threads'[i].tree[id + 1].outcome = node.outcome
                      /\ threads'[i].tree[id + 1].num_children = node.num_children
                      /\ threads'[i].tree[id + 1].oldest_child = node.oldest_child
                      /\ \A k \in Len(threads[i].tree) + 1 .. Len(threads'[i].tree) :
                             threads'[i].tree[k].parent # << id >> ]_vars

\* A child of the root that was solved Win and has been backed up through
\* since, and a node solved at its creation that a descent has reached and
\* backed up from.
C29_Witness ==
    \E i \in Searchers :
        /\ \E id \in node_ids(i) \ {0} :
               /\ threads[i].tree[id + 1].outcome = "Win"
               /\ threads[i].tree[id + 1].num_children > 0
               /\ threads[i].tree[id + 1].n = 3
        /\ \E id \in node_ids(i) \ {0} :
               /\ threads[i].tree[id + 1].outcome # "None"
               /\ threads[i].tree[id + 1].num_children = 0
               /\ threads[i].tree[id + 1].n > 0

\* The root of searcher i has an outcome.
root_solved(i) ==
    /\ threads[i].root < Len(threads[i].tree)
    /\ ~ is_unsolved(node_immut(threads[i].tree, threads[i].root))

\* Searcher i is past search_root: at the last line of launch or back in the
\* wait of idle.
has_left_search(i) == threads[i].phase \in {"finish", "wait"}

slice_of(tree, id) ==
    { tree[id + 1].oldest_child + k - 1 : k \in 1 .. tree[id + 1].num_children }

\* The ids of the nodes that name the id as their parent.
named_children(tree, id) == { k - 1 : k \in { j \in DOMAIN tree : tree[j].parent = << id >> } }

\* The shape of a tree: ids are indices, the root is the node 0 and has no
\* parent, the slice of an expanded node lies in the tree and holds exactly
\* the nodes that name it as parent, and two slices share no node.
tree_is_linked(s) ==
    LET tree     == s.tree
        ids      == { k - 1 : k \in DOMAIN tree }
        expanded == { id \in ids : tree[id + 1].num_children > 0 }
    IN  /\ \A id \in ids : tree[id + 1].id = id
        /\ tree # << >> => s.root = 0 /\ tree[1].parent = << >>
        /\ \A id \in expanded :
               /\ slice_of(tree, id) \subseteq ids
               /\ slice_of(tree, id) = named_children(tree, id)
        /\ \A id1, id2 \in expanded :
               id1 # id2 => slice_of(tree, id1) \cap slice_of(tree, id2) = {}

\* C31: in every tree at every step the node at index i has the id i, the
\* root is the node 0 without a parent, the children of an expanded node are
\* exactly the nodes of its slice, each naming it as parent, the slices of
\* two nodes are disjoint, and an expanded node keeps its slice: it is
\* expanded once.
C31_TreeIsLinkedAndExpandedOnce ==
    /\ [] (\A i \in DOMAIN threads : tree_is_linked(threads[i]))
    /\ [][ \A i \in DOMAIN threads :
             \A k \in DOMAIN threads[i].tree :
                 threads[i].tree[k].num_children > 0 =>
                     /\ k \in DOMAIN threads'[i].tree
                     /\ threads'[i].tree[k].oldest_child = threads[i].tree[k].oldest_child
                     /\ threads'[i].tree[k].num_children = threads[i].tree[k].num_children ]_vars

\* A tree of the root of three moves in which the root and two of its
\* children are expanded.
C31_Witness ==
    \E i \in DOMAIN threads :
        /\ Len(threads[i].tree) = 6
        /\ threads[i].tree[1].num_children = 3
        /\ Cardinality({ k \in 2 .. 4 : threads[i].tree[k].num_children = 1 }) = 2

\* The children of the roots of the searchers that came in by the action.
touching(key) ==
    { child \in UNION { Range(children_of_immut(threads[i].tree, threads[i].root))
                        : i \in { j \in DOMAIN threads : threads[j].tree # << >> } } :
        child.in_action = key }

\* The sum of n over a set of nodes of distinct ids or trees.
RECURSIVE visits_in(_)
visits_in(nodes) ==
    IF nodes = {} THEN 0
    ELSE LET node == CHOOSE x \in nodes : TRUE
         IN  node.n + visits_in(nodes \ {node})

\* The entry of the movemap is the aggregate of the children that came in by
\* its key: the visits are the sum of n, the eval is infinite when a child is
\* solved.
entry_aggregates(key) ==
    LET entry == entry_of(caller.movemap, key)
        nodes == touching(key)
    IN  /\ Cardinality(DOMAIN threads) = 1 => entry.visits = visits_in(nodes)
        /\ (\E child \in nodes : child.outcome = "Win") => entry.eval = Infinity
        /\ (\E child \in nodes : child.outcome = "Loss") => entry.eval = NegInfinity
        /\ (\A child \in nodes : is_unsolved(child)) => entry.eval[2] # 0

\* The keys that can come first in the sorted movevec of the launch.
tops_of_launch ==
    first_sorted(pool.state, caller.movemap, enumerate_moves(caller.position) \cup StrayKeys)

\* C32: when the children of every root have been folded into the movemap,
\* each entry is the aggregate of the children of its action, and the move
\* the launch chooses is the one the entries determine: no other entry can
\* come first, whatever the order in which the map yields its entries.
C32_ReductionChoosesOneMove ==
    [][ caller.phase = "first" /\ caller'.phase = "ready" =>
            /\ \A key \in DOMAIN caller.movemap : entry_aggregates(key)
            /\ \A key \in tops_of_launch : key = pool'.best_move ]_vars

\* C33: within one launch a searcher runs its search once: a searcher that
\* has left its search and is back in the wait of idle stays there for the
\* rest of the launch, and runs no further iteration.
C33_SearchesOncePerLaunch ==
    [][ \A i \in DOMAIN threads :
            threads[i].phase = "wait" => threads'[i].phase = "wait" ]_vars

\* The phases of ThreadPool::kill from the first cond_variable.set() on.
kill_signalled == caller.phase \in {"kill_join", "kill_dealloc", "killed"}

changed_tiles(before, after) ==
    { p \in Points : before[p[1]][p[2]] # after[p[1]][p[2]] }

\* C35: a place_tetromino or an undo_tetromino that does not return Ok
\* leaves every field of the board as it was, and a Game::apply that does
\* not return Ok leaves curr_board, hist_stack and redo_stack as they were;
\* a place or an undo that returns Ok changes piece_tiles at the four cells
\* of its tetromino and nowhere else, and leaves score_tiles as they were.
C35_FailedCallsChangeNothing ==
    [][ /\ call'.op \in {"place", "undo"} /\ call'.result # "Ok" => board' = board
        /\ call'.op = "apply" /\ call'.result # "Ok" =>
               /\ game'.curr_board = game.curr_board
               /\ game'.hist_stack = game.hist_stack
               /\ game'.redo_stack = game.redo_stack
        /\ call'.op \in {"place", "undo"} /\ call'.result = "Ok" =>
               /\ changed_tiles(board.piece_tiles, board'.piece_tiles)
                      = Range(points_real(call'.value))
               /\ board'.score_tiles = board.score_tiles ]_vars

\* An apply has failed on a game that has a history and a future.
C35_Witness ==
    /\ call.op = "apply"
    /\ call.result # "Ok"
    /\ game.hist_stack # << >>
    /\ game.redo_stack # << >>

\* All four absolute cells of the tetromino lie on the board and carry its colour.
covered_with_colour(b, tet) ==
    \A p \in Range(points_real(tet)) :
        in_bounds(p) /\ b.piece_tiles[p[1]][p[2]] = tet.colour

\* C36: undo_tetromino(t) returns the no-remaining-undo error when the pool of
\* t's colour holds 5, otherwise the piece-not-on-board error unless all four
\* absolute cells of t carry t's colour, and Ok only then; it never ends in
\* any other way than by returning Ok or one of these two errors.
C36_UndoReturnsAnErrorValue ==
    [][ call'.op = "undo" =>
          LET t == call'.value
          IN  /\ call'.result \in {"Ok", "no-remaining-undo", "piece-not-on-board"}
              /\ board.pieces_remaining[as_index(t.colour)] = 5
                     => call'.result = "no-remaining-undo"
              /\ ( board.pieces_remaining[as_index(t.colour)] < 5
                   /\ ~ covered_with_colour(board, t) )
                     => call'.result = "piece-not-on-board"
              /\ call'.result = "Ok" => covered_with_colour(board, t) ]_vars

\* C37: in every game reached from Game::new by Game::apply and Game::undo,
\* Game::to_move() is the player to move on the current board.
C37_GameToMoveIsTheBoards ==
    Game_to_move(game) = game.curr_board.to_move

\* The changes that make a notation one that Board::parse has to reject: a
\* length other than 107, a tile code that is none of the fifteen, no comma
\* at place 100 or 105, a pool digit outside 0 .. 5, a null side to move.
is_malformed(e) ==
    \/ e.kind \in { "drop", "push", "wide" }
    \/ e.kind = "put" /\ e.at \in { 0, 99, 100, 101, 104, 105 }
    \/ e.kind = "put" /\ e.at = 106 /\ e.byte = "_"

\* C39: Board::parse of the notation of a board reached by place and undo
\* succeeds and gives the board back, equal in every field including
\* attach_points; and Board::parse returns an error for a notation whose
\* length is not 107, that has an invalid tile code, no comma at place 100 or
\* 105, a pool digit outside 0 .. 5 or a null side to move.
C39_BoardNotationRoundTrips ==
    [][ /\ call'.op = "parse" => (call'.result = "Ok" /\ board' = board)
        /\ (call'.op = "parse-text" /\ is_malformed(call'.value))
              => (call'.result \notin { "Ok", "panic" } /\ board' = board) ]_vars

\* The tetrominoes placed in order with place_tetromino: the last result that
\* was reached and the board the placements left.
RECURSIVE replayed(_, _)
replayed(b, moves) ==
    IF moves = << >> THEN [ result |-> "Ok", board |-> b ]
    ELSE LET placed == place_tetromino(b, moves[1])
         IN  IF placed.result # "Ok" THEN placed
             ELSE replayed(placed.board, Tail(moves))

\* C38: in every game reached from Game::new or Game::parse by Game::apply
\* and Game::undo, curr_board is base_board with the tetrominoes of
\* hist_stack placed in order, the redo_stack replayed from its top is a
\* sequence of legal placements from curr_board, and Game::parse of the
\* game's notation succeeds and gives back base_board and the line
\* hist_stack followed by the reversed redo_stack.
C38_GameIsItsLineReplayed ==
    /\ replayed(game.base_board, game.hist_stack)
           = [ result |-> "Ok", board |-> game.curr_board ]
    /\ replayed(game.curr_board, Reverse(game.redo_stack)).result = "Ok"
    /\ LET parsed == Game_parse(Game_notate(game))
       IN  /\ parsed.result = "Ok"
           /\ parsed.game.base_board = game.base_board
           /\ parsed.game.hist_stack = game.hist_stack \o Reverse(game.redo_stack)

\* The invariant of a tetromino: its relative points have the bounding-box
\* minimum (0, 0), they are the reference shape of its colour under its
\* recorded transform, normalized, and the recorded transform is canonical
\* for its colour.
tetromino_invariant(tet) ==
    /\ normalize_anchor(tet.points) = <<0, 0>>
    /\ Range(tet.points) = shape_under(tet.colour, tet.transform)
    /\ canonicalize(tet.transform, tet.colour) = tet.transform

\* C40: every tetromino that Tetromino::new, enumerate_transforms or
\* apply_to_tetromino returns, whatever the transform and whatever the
\* tetromino it is applied to, satisfies the tetromino invariant.
C40_MadeTetrominoesAreCanonical ==
    call.op \in { "Tetromino::new", "enumerate_transforms", "apply_to_tetromino" } =>
        \A tet \in Range(call.value.made) : tetromino_invariant(tet)

====
